---------------------------- MODULE Spec2Model ----------------------------
(***************************************************************************)
(* A model of kubewebproxy: the secure handler (health gate, IAP gate,     *)
(* ServeMux), the root handler, the proxy handler with its directory       *)
(* lookup and upstream forward, the response rewriter and the pure         *)
(* functions they use (servicePattern, strconv.ParseInt, path.Clean,       *)
(* rewriteURL), and the self-check main makes before it listens.           *)
(*                                                                         *)
(* Go strings are modelled as sequences of one-character strings, so that  *)
(* matching, parsing and formatting are computed character by character.   *)
(***************************************************************************)
EXTENDS Integers, Sequences, FiniteSets, TLC

VARIABLES
    main,     \* the process: where main is, its self-checks, its directory client
    dir,      \* the services the directory holds: a sequence of entries
    reqs,     \* one record per request slot: the request and its progress
    pathIn,   \* SpecPath: the path handed to servicePattern
    pathOut,  \* SpecPath: the result of servicePattern.FindStringSubmatch
    urlIn,    \* SpecURL: the (urlString, rootPath) handed to rewriteURL
    urlOut,   \* SpecURL: the result of rewriteURL
    htmlIn,   \* SpecHTML: the (document, rootPath) handed to rewriteAbsolutePathLinks
    htmlOut   \* SpecHTML: what rewriteAbsolutePathLinks wrote

vars == <<main, dir, reqs, pathIn, pathOut, urlIn, urlOut, htmlIn, htmlOut>>

-----------------------------------------------------------------------------
(* Bounds of the model.                                                    *)

\* the longest path drawn for servicePattern in SpecPath
MaxPathLen == 8
\* the longest URL string drawn for rewriteURL in SpecURL
MaxURLLen == 4
\* the most ports a directory entry advertises
MaxPorts == 2
\* the most services a directory holds in SpecList
MaxServices == 3
\* the longest generated port segment in SpecPort
MaxPortLen == 3

-----------------------------------------------------------------------------
(* Strings.                                                                *)

NL == "\n"
DQ == "\""
SQ == "'"
BS == "\\"

\* every string over alphabet A of length at most n
StringsUpTo(A, n) == UNION {[1..k -> A] : k \in 0..n}

HasPrefix(s, p) == Len(s) >= Len(p) /\ SubSeq(s, 1, Len(p)) = p

HasSuffix(s, p) == Len(s) >= Len(p) /\ SubSeq(s, Len(s) - Len(p) + 1, Len(s)) = p

\* strings.Index: the first 1-based position where sub occurs in s, 0 if none
Index(s, sub) ==
    LET hits == {i \in 1..(Len(s) - Len(sub) + 1) : SubSeq(s, i, i + Len(sub) - 1) = sub}
    IN  IF hits = {} THEN 0 ELSE CHOOSE i \in hits : \A j \in hits : i <= j

Contains(s, sub) == Index(s, sub) # 0

UpperLetters == <<"A","B","C","D","E","F","G","H","I","J","K","L","M",
                  "N","O","P","Q","R","S","T","U","V","W","X","Y","Z">>
LowerLetters == <<"a","b","c","d","e","f","g","h","i","j","k","l","m",
                  "n","o","p","q","r","s","t","u","v","w","x","y","z">>

ToLowerChar(c) ==
    IF \E i \in 1..26 : UpperLetters[i] = c
    THEN LowerLetters[CHOOSE i \in 1..26 : UpperLetters[i] = c]
    ELSE c

ToLower(s) == [i \in 1..Len(s) |-> ToLowerChar(s[i])]

IsLetter(c) == \E i \in 1..26 : UpperLetters[i] = c \/ LowerLetters[i] = c

DigitChars == <<"0","1","2","3","4","5","6","7","8","9">>

IsDigit(c) == \E i \in 1..10 : DigitChars[i] = c

DigitVal(c) == (CHOOSE i \in 1..10 : DigitChars[i] = c) - 1

\* fmt.Sprintf("%d", n) for an int
RECURSIVE FormatNat(_)
FormatNat(n) ==
    IF n < 10 THEN <<DigitChars[n + 1]>>
    ELSE FormatNat(n \div 10) \o <<DigitChars[(n % 10) + 1]>>

FormatInt(n) == IF n < 0 THEN <<"-">> \o FormatNat(0 - n) ELSE FormatNat(n)

-----------------------------------------------------------------------------
\* servicePattern: ^ / G / G / G R $ where G is the group [^/]+ (one or more
\* characters other than a slash) and R is the group "any number of dots",
\* a dot being any character but a newline.

\* the end of the longest run of characters other than '/' that starts at
\* position i of p (i - 1 when the run is empty): what a greedy [^/]+ takes
RECURSIVE RunEnd(_, _)
RunEnd(p, i) ==
    IF i > Len(p) \/ p[i] = "/" THEN i - 1 ELSE RunEnd(p, i + 1)

\* '.' matches any character but a newline (the pattern sets no s flag)
DotStar(s) == \A k \in 1..Len(s) : s[k] # NL

\* FindStringSubmatch: <<>> (nil) when the pattern does not match, otherwise
\* <<whole, namespace, service, port, destPath>>.  Every [^/]+ is followed by
\* a character it cannot take or by R $, so the greedy run is the only
\* candidate for the first two groups and the preferred one for the third;
\* a shorter third group leaves the same characters to R $.
FindStringSubmatch(p) ==
    IF Len(p) = 0 \/ p[1] # "/" THEN <<>>
    ELSE LET e1 == RunEnd(p, 2) IN
      IF e1 < 2 \/ e1 + 1 > Len(p) THEN <<>>
      ELSE LET e2 == RunEnd(p, e1 + 2) IN
        IF e2 < e1 + 2 \/ e2 + 1 > Len(p) THEN <<>>
        ELSE LET e3 == RunEnd(p, e2 + 2) IN
          IF e3 < e2 + 2 THEN <<>>
          ELSE IF ~DotStar(SubSeq(p, e3 + 1, Len(p))) THEN <<>>
          ELSE << p,
                  SubSeq(p, 2, e1),
                  SubSeq(p, e1 + 2, e2),
                  SubSeq(p, e2 + 2, e3),
                  SubSeq(p, e3 + 1, Len(p)) >>

MatchString(p) == FindStringSubmatch(p) # <<>>

-----------------------------------------------------------------------------
(* strconv.ParseInt(s, 10, 32)                                             *)

MaxInt32 == 2147483647

\* ParseUint over the digits, saturating above 2^31: the value is kept only
\* as far as the int32 range check of ParseInt needs it.  The result is
\* [err |-> "syntax"], or [err |-> "", val |-> n, over |-> the value exceeds
\* 2^31 - 1].
RECURSIVE ParseDigits(_, _, _, _)
ParseDigits(s, i, acc, over) ==
    IF i > Len(s) THEN [err |-> "", val |-> acc, over |-> over]
    ELSE IF ~IsDigit(s[i]) THEN [err |-> "syntax", val |-> 0, over |-> FALSE]
    ELSE LET d == DigitVal(s[i]) IN
         IF over \/ acc > (MaxInt32 - d) \div 10
         THEN ParseDigits(s, i + 1, MaxInt32, TRUE)
         ELSE ParseDigits(s, i + 1, acc * 10 + d, FALSE)

\* the magnitude 2^31 itself, which only a negative number may have
IsTwoTo31(s) ==
    LET k == CHOOSE k \in 0..Len(s) : (\A j \in 1..k : s[j] = "0")
                                      /\ (k = Len(s) \/ s[k + 1] # "0")
    IN  SubSeq(s, k + 1, Len(s)) = <<"2","1","4","7","4","8","3","6","4","8">>

\* the digits from position i on, taken into a 32-bit word kept as two
\* halves of 16 bits: what int32(v) keeps of a larger v
RECURSIVE WrapDigits(_, _, _, _)
WrapDigits(s, i, hi, lo) ==
    IF i > Len(s) THEN (IF hi < 32768 THEN hi * 65536 + lo ELSE (hi - 65536) * 65536 + lo)
    ELSE WrapDigits(s, i + 1,
                    (hi * 10 + (lo * 10 + DigitVal(s[i])) \div 65536) % 65536,
                    (lo * 10 + DigitVal(s[i])) % 65536)

\* fault variant of ParseInt: the number is parsed with bit size 64 and cut
\* to 32 bits by the conversion, so that a number out of range wraps around
ParseIntWrapped(s) ==
    IF s = <<>> \/ (s[1] \in {"+", "-"} /\ Tail(s) = <<>>) THEN [err |-> "syntax", val |-> 0]
    ELSE IF \E k \in 1..Len(s) : ~IsDigit(s[k]) /\ ~(k = 1 /\ s[1] \in {"+", "-"})
    THEN [err |-> "syntax", val |-> 0]
    ELSE IF s[1] = "-" THEN [err |-> "", val |-> 0 - WrapDigits(Tail(s), 1, 0, 0)]
    ELSE IF s[1] = "+" THEN [err |-> "", val |-> WrapDigits(Tail(s), 1, 0, 0)]
    ELSE [err |-> "", val |-> WrapDigits(s, 1, 0, 0)]

\* [err |-> "" | "syntax" | "range", val |-> the int64 returned]
ParseInt(s) ==
    IF s = <<>> THEN [err |-> "syntax", val |-> 0]
    ELSE LET neg  == s[1] = "-"
             rest == IF s[1] \in {"+", "-"} THEN Tail(s) ELSE s
         IN  IF rest = <<>> THEN [err |-> "syntax", val |-> 0]
             ELSE LET un == ParseDigits(rest, 1, 0, FALSE) IN
                  IF un.err # "" THEN [err |-> "syntax", val |-> 0]
                  ELSE IF un.over /\ ~(neg /\ IsTwoTo31(rest))
                       THEN [err |-> "range", val |-> IF neg THEN 0 - MaxInt32 - 1 ELSE MaxInt32]
                  ELSE IF un.over THEN [err |-> "", val |-> 0 - MaxInt32 - 1]
                  ELSE [err |-> "", val |-> IF neg THEN 0 - un.val ELSE un.val]

-----------------------------------------------------------------------------
(* path.Clean and path.Join                                                *)

\* the ".." case of Clean: drop the last element of out, back to dotdot
RECURSIVE Backtrack(_, _, _)
Backtrack(out, w, dotdot) ==
    IF w > dotdot /\ out[w + 1] # "/" THEN Backtrack(out, w - 1, dotdot) ELSE w

RECURSIVE CleanLoop(_, _, _, _, _)
CleanLoop(path, rooted, r, out, dotdot) ==
    LET n == Len(path)
        at(k) == path[k + 1]      \* path[k] with Go's 0-based index
    IN
    IF r >= n THEN out
    ELSE IF at(r) = "/" THEN CleanLoop(path, rooted, r + 1, out, dotdot)
    ELSE IF at(r) = "." /\ (r + 1 = n \/ at(r + 1) = "/")
         THEN CleanLoop(path, rooted, r + 1, out, dotdot)
    ELSE IF at(r) = "." /\ at(r + 1) = "." /\ (r + 2 = n \/ at(r + 2) = "/")
         THEN IF Len(out) > dotdot
              THEN CleanLoop(path, rooted, r + 2,
                             SubSeq(out, 1, Backtrack(out, Len(out) - 1, dotdot)), dotdot)
              ELSE IF ~rooted
              THEN LET o2 == (IF Len(out) > 0 THEN out \o <<"/">> ELSE out) \o <<".", ".">>
                   IN  CleanLoop(path, rooted, r + 2, o2, Len(o2))
              ELSE CleanLoop(path, rooted, r + 2, out, dotdot)
    ELSE LET o1 == IF (rooted /\ Len(out) # 1) \/ (~rooted /\ Len(out) # 0)
                   THEN out \o <<"/">> ELSE out
             e  == RunEnd(path, r + 1)
         IN  CleanLoop(path, rooted, e, o1 \o SubSeq(path, r + 1, e), dotdot)

Clean(path) ==
    IF path = <<>> THEN <<".">>
    ELSE LET rooted == path[1] = "/"
             out == IF rooted THEN CleanLoop(path, TRUE, 1, <<"/">>, 1)
                    ELSE CleanLoop(path, FALSE, 0, <<>>, 0)
         IN  IF out = <<>> THEN <<".">> ELSE out

\* path.Join(a, b)
Join(a, b) ==
    IF Len(a) + Len(b) = 0 THEN <<>>
    ELSE IF a = <<>> THEN Clean(b)
    ELSE IF b = <<>> THEN Clean(a)
    ELSE Clean(a \o <<"/">> \o b)

-----------------------------------------------------------------------------
(* net/url: Parse and URL.String, as rewriteURL uses them.  The URL strings *)
(* the model draws hold neither '@' nor '[', so the userinfo and the       *)
(* IP-literal branches of parseAuthority are not modelled.                 *)

\* the byte each character stands for: ByteTable[b + 1] is byte b; a byte
\* that is not printable ASCII, and the backquote, is written as its escape
ByteTable == <<
    "%00", "%01", "%02", "%03", "%04", "%05", "%06", "%07",
    "%08", "%09", NL, "%0B", "%0C", "%0D", "%0E", "%0F",
    "%10", "%11", "%12", "%13", "%14", "%15", "%16", "%17",
    "%18", "%19", "%1A", "%1B", "%1C", "%1D", "%1E", "%1F",
    " ", "!", DQ, "#", "$", "%", "&", SQ,
    "(", ")", "*", "+", ",", "-", ".", "/",
    "0", "1", "2", "3", "4", "5", "6", "7",
    "8", "9", ":", ";", "<", "=", ">", "?",
    "@", "A", "B", "C", "D", "E", "F", "G",
    "H", "I", "J", "K", "L", "M", "N", "O",
    "P", "Q", "R", "S", "T", "U", "V", "W",
    "X", "Y", "Z", "[", BS, "]", "^", "_",
    "%60", "a", "b", "c", "d", "e", "f", "g",
    "h", "i", "j", "k", "l", "m", "n", "o",
    "p", "q", "r", "s", "t", "u", "v", "w",
    "x", "y", "z", "{", "|", "}", "~", "%7F",
    "%80", "%81", "%82", "%83", "%84", "%85", "%86", "%87",
    "%88", "%89", "%8A", "%8B", "%8C", "%8D", "%8E", "%8F",
    "%90", "%91", "%92", "%93", "%94", "%95", "%96", "%97",
    "%98", "%99", "%9A", "%9B", "%9C", "%9D", "%9E", "%9F",
    "%A0", "%A1", "%A2", "%A3", "%A4", "%A5", "%A6", "%A7",
    "%A8", "%A9", "%AA", "%AB", "%AC", "%AD", "%AE", "%AF",
    "%B0", "%B1", "%B2", "%B3", "%B4", "%B5", "%B6", "%B7",
    "%B8", "%B9", "%BA", "%BB", "%BC", "%BD", "%BE", "%BF",
    "%C0", "%C1", "%C2", "%C3", "%C4", "%C5", "%C6", "%C7",
    "%C8", "%C9", "%CA", "%CB", "%CC", "%CD", "%CE", "%CF",
    "%D0", "%D1", "%D2", "%D3", "%D4", "%D5", "%D6", "%D7",
    "%D8", "%D9", "%DA", "%DB", "%DC", "%DD", "%DE", "%DF",
    "%E0", "%E1", "%E2", "%E3", "%E4", "%E5", "%E6", "%E7",
    "%E8", "%E9", "%EA", "%EB", "%EC", "%ED", "%EE", "%EF",
    "%F0", "%F1", "%F2", "%F3", "%F4", "%F5", "%F6", "%F7",
    "%F8", "%F9", "%FA", "%FB", "%FC", "%FD", "%FE", "%FF" >>

Code(c) == (CHOOSE n \in 1..256 : ByteTable[n] = c) - 1

HexDigits == <<"0","1","2","3","4","5","6","7","8","9","A","B","C","D","E","F">>

IsHex(c) == \E i \in 1..16 : HexDigits[i] = c \/ ToLowerChar(HexDigits[i]) = c

UnHex(c) == (CHOOSE i \in 1..16 : HexDigits[i] = c \/ ToLowerChar(HexDigits[i]) = c) - 1

\* shouldEscape(c, mode) for the modes "path", "host" and "fragment"
ShouldEscape(c, mode) ==
    IF IsLetter(c) \/ IsDigit(c) THEN FALSE
    ELSE IF mode = "host" /\ c \in {"!", "$", "&", SQ, "(", ")", "*", "+", ",", ";",
                                   "=", ":", "[", "]", "<", ">", DQ} THEN FALSE
    ELSE IF c \in {"-", "_", ".", "~"} THEN FALSE
    ELSE IF c \in {"$", "&", "+", ",", "/", ":", ";", "=", "?", "@"} /\ mode = "path"
         THEN c = "?"
    ELSE IF c \in {"$", "&", "+", ",", "/", ":", ";", "=", "?", "@"} /\ mode = "fragment"
         THEN FALSE
    ELSE IF mode = "fragment" /\ c \in {"!", "(", ")", "*"} THEN FALSE
    ELSE TRUE

\* unescape(s, mode): [err |-> BOOLEAN, s |-> the decoded string]
RECURSIVE UnescapeFrom(_, _, _, _)
UnescapeFrom(s, i, mode, out) ==
    IF i > Len(s) THEN [err |-> FALSE, s |-> out]
    ELSE IF s[i] = "%"
    THEN IF i + 2 > Len(s) \/ ~IsHex(s[i + 1]) \/ ~IsHex(s[i + 2])
         THEN [err |-> TRUE, s |-> <<>>]
         ELSE IF mode = "host" /\ UnHex(s[i + 1]) < 8 /\ SubSeq(s, i, i + 2) # <<"%", "2", "5">>
         THEN [err |-> TRUE, s |-> <<>>]
         ELSE UnescapeFrom(s, i + 3, mode,
                           Append(out, ByteTable[UnHex(s[i + 1]) * 16 + UnHex(s[i + 2]) + 1]))
    ELSE IF mode = "host" /\ Code(s[i]) < 128 /\ ShouldEscape(s[i], "host")
         THEN [err |-> TRUE, s |-> <<>>]
    ELSE UnescapeFrom(s, i + 1, mode, Append(out, s[i]))

Unescape(s, mode) == UnescapeFrom(s, 1, mode, <<>>)

\* escape(s, mode)
RECURSIVE Escape(_, _)
Escape(s, mode) ==
    IF s = <<>> THEN <<>>
    ELSE (IF ShouldEscape(Head(s), mode)
          THEN <<"%", HexDigits[(Code(Head(s)) \div 16) + 1], HexDigits[(Code(Head(s)) % 16) + 1]>>
          ELSE <<Head(s)>>) \o Escape(Tail(s), mode)

\* validEncoded(s, mode)
ValidEncoded(s, mode) ==
    \A i \in 1..Len(s) :
        \/ s[i] \in {"!", "$", "&", SQ, "(", ")", "*", "+", ",", ";", "=", ":", "@",
                     "[", "]", "%"}
        \/ ~ShouldEscape(s[i], mode)

\* stringContainsCTLByte
ContainsCTLByte(s) == \E i \in 1..Len(s) : Code(s[i]) < 32 \/ Code(s[i]) = 127

\* strings.Cut(s, sep) for a one-character sep: <<before, after, found>>
Cut(s, sep) ==
    LET i == Index(s, <<sep>>)
    IN  IF i = 0 THEN <<s, <<>>, FALSE>>
        ELSE <<SubSeq(s, 1, i - 1), SubSeq(s, i + 1, Len(s)), TRUE>>

\* strings.LastIndex(s, sep) for a one-character sep, 1-based, 0 if none
LastIndex(s, sep) ==
    LET hits == {i \in 1..Len(s) : s[i] = sep}
    IN  IF hits = {} THEN 0 ELSE CHOOSE i \in hits : \A j \in hits : i >= j

\* getScheme: [err |-> BOOLEAN, scheme, rest]
RECURSIVE GetSchemeFrom(_, _)
GetSchemeFrom(rawURL, i) ==
    IF i > Len(rawURL) THEN [err |-> FALSE, scheme |-> <<>>, rest |-> rawURL]
    ELSE LET c == rawURL[i] IN
         IF IsLetter(c) THEN GetSchemeFrom(rawURL, i + 1)
         ELSE IF IsDigit(c) \/ c \in {"+", "-", "."}
              THEN IF i = 1 THEN [err |-> FALSE, scheme |-> <<>>, rest |-> rawURL]
                   ELSE GetSchemeFrom(rawURL, i + 1)
         ELSE IF c = ":"
              THEN IF i = 1 THEN [err |-> TRUE, scheme |-> <<>>, rest |-> <<>>]
                   ELSE [err |-> FALSE, scheme |-> SubSeq(rawURL, 1, i - 1),
                         rest |-> SubSeq(rawURL, i + 1, Len(rawURL))]
         ELSE [err |-> FALSE, scheme |-> <<>>, rest |-> rawURL]

GetScheme(rawURL) == GetSchemeFrom(rawURL, 1)

\* validOptionalPort
ValidOptionalPort(port) ==
    \/ port = <<>>
    \/ /\ port[1] = ":"
       /\ \A i \in 2..Len(port) : IsDigit(port[i])

\* parseHost, for a host that is no IP literal
ParseHost(host) ==
    LET i == LastIndex(host, ":")
    IN  IF i # 0 /\ ~ValidOptionalPort(SubSeq(host, i, Len(host)))
        THEN [err |-> TRUE, s |-> <<>>]
        ELSE Unescape(host, "host")

NoURL == [err |-> TRUE, Scheme |-> <<>>, Opaque |-> <<>>, Host |-> <<>>, Path |-> <<>>,
          RawPath |-> <<>>, ForceQuery |-> FALSE, RawQuery |-> <<>>,
          Fragment |-> <<>>, RawFragment |-> <<>>]

\* URL.setPath, from the result of unescape
SetPathUnescaped(u, p, un) ==
    IF un.err THEN NoURL
    ELSE [u EXCEPT !.Path = un.s,
                   !.RawPath = IF p = Escape(un.s, "path") THEN <<>> ELSE p]

SetPath(u, p) == SetPathUnescaped(u, p, Unescape(p, "path"))

\* URL.setFragment, from the result of unescape
SetFragmentUnescaped(u, f, un) ==
    IF un.err THEN NoURL
    ELSE [u EXCEPT !.Fragment = un.s,
                   !.RawFragment = IF f = Escape(un.s, "fragment") THEN <<>> ELSE f]

SetFragment(u, f) == SetFragmentUnescaped(u, f, Unescape(f, "fragment"))

\* parse: the authority is parsed and the path set
ParseWithHost(u0, h, rest2) ==
    IF h.err THEN NoURL ELSE SetPath([u0 EXCEPT !.Host = h.s], rest2)

\* parse: the authority is cut from the rest at its first slash (i = 0: none)
ParseAuthority(u0, auth0, i) ==
    ParseWithHost(u0,
                  ParseHost(IF i = 0 THEN auth0 ELSE SubSeq(auth0, 1, i - 1)),
                  IF i = 0 THEN <<>> ELSE SubSeq(auth0, i, Len(auth0)))

\* parse, once the scheme and the query are split off
ParseRest(u0, rest) ==
    IF ~HasPrefix(rest, <<"/">>) /\ u0.Scheme # <<>>
    THEN [u0 EXCEPT !.Opaque = rest]
    ELSE IF ~HasPrefix(rest, <<"/">>) /\ Contains(Cut(rest, "/")[1], <<":">>)
    THEN NoURL
    ELSE IF (u0.Scheme # <<>> \/ ~HasPrefix(rest, <<"/", "/", "/">>))
            /\ HasPrefix(rest, <<"/", "/">>)
    THEN ParseAuthority(u0, SubSeq(rest, 3, Len(rest)),
                        Index(SubSeq(rest, 3, Len(rest)), <<"/">>))
    ELSE SetPath(u0, rest)

\* parse: the query is split off what follows the scheme
ParseQuery(scheme, rest, force, cut) ==
    ParseRest([NoURL EXCEPT !.err = FALSE, !.Scheme = ToLower(scheme), !.ForceQuery = force,
                            !.RawQuery = IF force THEN <<>> ELSE cut[2]],
              IF force THEN SubSeq(rest, 1, Len(rest) - 1) ELSE cut[1])

\* parse, from the result of getScheme
ParseScheme(gs) ==
    IF gs.err THEN NoURL
    ELSE ParseQuery(gs.scheme, gs.rest,
                    HasSuffix(gs.rest, <<"?">>)
                       /\ Cardinality({i \in 1..Len(gs.rest) : gs.rest[i] = "?"}) = 1,
                    Cut(gs.rest, "?"))

\* parse(rawURL, viaRequest = false)
ParseNoFragment(rawURL) ==
    IF ContainsCTLByte(rawURL) THEN NoURL
    ELSE IF rawURL = <<"*">> THEN [NoURL EXCEPT !.err = FALSE, !.Path = <<"*">>]
    ELSE ParseScheme(GetScheme(rawURL))

\* url.Parse, from the string cut at its first '#'
ParseCut(u, frag) ==
    IF u.err THEN NoURL
    ELSE IF frag = <<>> THEN u
    ELSE SetFragment(u, frag)

Parse(rawURL) == ParseCut(ParseNoFragment(Cut(rawURL, "#")[1]), Cut(rawURL, "#")[2])

\* URL.EscapedPath, from the result of unescaping RawPath
EscapedPathUnescaped(u, un) ==
    IF u.RawPath # <<>> /\ ValidEncoded(u.RawPath, "path") /\ ~un.err /\ un.s = u.Path
    THEN u.RawPath
    ELSE IF u.Path = <<"*">> THEN <<"*">>
    ELSE Escape(u.Path, "path")

EscapedPath(u) == EscapedPathUnescaped(u, Unescape(u.RawPath, "path"))

\* URL.EscapedFragment, from the result of unescaping RawFragment
EscapedFragmentUnescaped(u, un) ==
    IF u.RawFragment # <<>> /\ ValidEncoded(u.RawFragment, "fragment")
       /\ ~un.err /\ un.s = u.Fragment
    THEN u.RawFragment
    ELSE Escape(u.Fragment, "fragment")

EscapedFragment(u) == EscapedFragmentUnescaped(u, Unescape(u.RawFragment, "fragment"))

\* URL.String: the scheme, then "//" and the host
StringAuthority(u) ==
    (IF u.Scheme # <<>> THEN u.Scheme \o <<":">> ELSE <<>>)
    \o (IF (u.Scheme # <<>> \/ u.Host # <<>>) /\ (u.Host # <<>> \/ u.Path # <<>>)
        THEN <<"/", "/">> \o Escape(u.Host, "host")
        ELSE <<>>)

\* URL.String: buf, then the escaped path
StringPath(u, buf, path) ==
    (IF path # <<>> /\ path[1] # "/" /\ u.Host # <<>> THEN buf \o <<"/">>
     ELSE IF buf = <<>> /\ Contains(Cut(path, "/")[1], <<":">>) THEN <<".", "/">>
     ELSE buf)
    \o path

\* URL.String
URLString(u) ==
    (IF u.Opaque # <<>>
     THEN (IF u.Scheme # <<>> THEN u.Scheme \o <<":">> ELSE <<>>) \o u.Opaque
     ELSE StringPath(u, StringAuthority(u), EscapedPath(u)))
    \o (IF u.ForceQuery \/ u.RawQuery # <<>> THEN <<"?">> \o u.RawQuery ELSE <<>>)
    \o (IF u.Fragment # <<>> THEN <<"#">> \o EscapedFragment(u) ELSE <<>>)

\* URL.IsAbs
IsAbs(u) == u.Scheme # <<>>

-----------------------------------------------------------------------------
(* rewriteURL                                                              *)

\* "ensure we keep the same trailing slashes"
\* fault variant of rewriteURL: the trailing slash is not put back
KeepTrailingSlashNever(origPath, joined) == joined

KeepTrailingSlash(origPath, joined) ==
    IF origPath[Len(origPath)] = "/" /\ joined[Len(joined)] # "/"
    THEN joined \o <<"/">> ELSE joined

\* fault variant of rewriteURL: a relative path is joined to the root as well
RewriteParsedRelative(u, urlString, rootPath) ==
    IF u.err THEN urlString
    ELSE IF IsAbs(u) THEN urlString
    ELSE IF u.Path = <<>> THEN urlString
    ELSE URLString([u EXCEPT !.Path = KeepTrailingSlash(u.Path, Join(rootPath, u.Path))])

\* fault variant of rewriteURL: u.IsAbs() is not checked
RewriteParsedNoAbs(u, urlString, rootPath) ==
    IF u.err THEN urlString
    ELSE IF u.Path = <<>> THEN urlString
    ELSE IF u.Path[1] # "/" THEN urlString
    ELSE URLString([u EXCEPT !.Path = KeepTrailingSlash(u.Path, Join(rootPath, u.Path))])

\* rewriteURL, from the result of url.Parse
RewriteParsed(u, urlString, rootPath) ==
    IF u.err THEN urlString
    ELSE IF IsAbs(u) THEN urlString
    ELSE IF u.Path = <<>> THEN urlString
    ELSE IF u.Path[1] # "/" THEN urlString
    ELSE URLString([u EXCEPT !.Path = KeepTrailingSlash(u.Path, Join(rootPath, u.Path))])

rewriteURL(urlString, rootPath) == RewriteParsed(Parse(urlString), urlString, rootPath)

-----------------------------------------------------------------------------
(* Constants of the program.                                               *)

googleHealthCheckUserAgent == <<"g","o","o","g","l","e","h","c","/">>
kubernetesHealthCheckUserAgent == <<"k","u","b","e","-","p","r","o","b","e","/">>
healthCheckUserAgents == <<googleHealthCheckUserAgent, kubernetesHealthCheckUserAgent>>

StatusOK == 200
StatusMovedPermanently == 301
StatusForbidden == 403
StatusNotFound == 404
StatusMethodNotAllowed == 405
StatusInternalServerError == 500
StatusBadGateway == 502

-----------------------------------------------------------------------------
(* The inputs the model draws.                                             *)

HealthPath == <<"/","h","e","a","l","t","h">>

\* the segments and remainders proxy-shaped request paths are built from
NamespaceSegs == {<<"n">>}
ServiceSegs == {<<"s">>, <<"t">>}
PortSegs == {<<"8","0">>, <<"5","3">>, <<"8","1">>, <<"+","8","0">>, <<"x">>}
Remainders == {<<>>, <<"/">>, <<"/","a">>, <<"/",".",".">>, <<"/","a",NL,"b">>}

PathInputs ==
    {<<"/">>, HealthPath, <<"/","o">>, <<"/","/">>, <<"/","n","/","s">>,
     <<"/","n","/","s","/">>}
    \cup {<<"/">> \o ns \o <<"/">> \o sv \o <<"/">> \o pt \o rm :
            ns \in NamespaceSegs, sv \in ServiceSegs, pt \in PortSegs, rm \in Remainders}

MethodInputs == {"GET", "POST"}

\* the request bodies: a GET carries none
RequestBodyInputs(m) == IF m = "GET" THEN {<<>>} ELSE {<<>>, <<"b">>}

UserAgentInputs ==
    {<<"G","o","o","g","l","e","H","C","/","1">>,
     <<"G","o","o","g","l","e","H","C","x","/","2">>,
     <<"x","k","u","b","e","-","p","r","o","b","e","/","1">>,
     <<"M","o","z","i","l","l","a","/","5">>}

\* the ports a directory entry may advertise
PortInputs ==
    {[Name |-> <<>>, Port |-> 80, Protocol |-> "TCP"],
     [Name |-> <<>>, Port |-> 80, Protocol |-> "UDP"],
     [Name |-> <<>>, Port |-> 53, Protocol |-> "UDP"]}

PortLists == StringsUpTo(PortInputs, MaxPorts)

ClusterIPOfS == <<"c">>

\* the directory holds no service, or the service n/s with some port list
DirInputs ==
    {<<>>} \cup
    {<<[Namespace |-> <<"n">>, Name |-> <<"s">>, ClusterIP |-> ClusterIPOfS, Ports |-> pl]>> :
        pl \in PortLists}

\* what the upstream may answer
UpstreamStatusInputs == {200, 205, 303}
LocationInputs == {<<>>, <<"/","o">>}
ContentTypeInputs == {"text/html; charset=UTF-8", "text/plain", "", "text/html;;"}

-----------------------------------------------------------------------------
(* The state of a request.                                                 *)

NoTarget == [set |-> FALSE, namespace |-> <<>>, service |-> <<>>, port |-> 0,
             destPath |-> <<>>]

\* contentLength is <<>> without the header and <<n>> with it; tokens are
\* the pieces a proxied body is made of and body its bytes
NoResponse == [status |-> 0, contentType |-> "", location |-> <<>>,
               contentLength |-> <<>>, text |-> "", tokens |-> <<>>, body |-> <<>>]

Idle ==
    [pc |-> "idle", path |-> <<>>, method |-> "", body |-> <<>>, userAgent |-> <<>>,
     iapValid |-> FALSE,
     bypassed |-> FALSE, iapAccepted |-> FALSE, iapRejected |-> FALSE,
     handler |-> "", gets |-> <<>>, getAnswer |-> "", lists |-> 0, forwards |-> <<>>,
     entry |-> <<>>, target |-> NoTarget, upstream |-> NoResponse, listing |-> <<>>,
     hooked |-> NoResponse, panicked |-> FALSE, responses |-> 0, resp |-> NoResponse]

Slots == {1}

\* the process once it serves; services tells the implementation of
\* serviceInfo the server was built with: "api" is kubernetesAPIClient and
\* "fake" the client of the tests, which hands out its own list
Serving(services) ==
    [pc |-> "serving", checks |-> <<>>, answer |-> "", services |-> services]

\* the response written to the client of slot i
Respond(r, status, ctype, text) ==
    [r EXCEPT !.pc = "done", !.responses = @ + 1,
              !.resp = [NoResponse EXCEPT !.status = status, !.contentType = ctype,
                                          !.text = text]]

\* http.Error
HttpError(r, text, status) == Respond(r, status, "text/plain; charset=utf-8", text)

-----------------------------------------------------------------------------
(* healthHandler, isRootHealthCheck                                        *)

\* fault variant of healthHandler: the method is not looked at
healthHandlerAnyMethod(r) ==
    Respond([r EXCEPT !.handler = "health"], StatusOK, "text/plain;charset=utf-8", "ok\n")

healthHandler(r) ==
    IF r.method # "GET"
    THEN HttpError([r EXCEPT !.handler = "health"], "invalid method", StatusMethodNotAllowed)
    ELSE Respond([r EXCEPT !.handler = "health"], StatusOK, "text/plain;charset=utf-8", "ok\n")

\* fault variant of isRootHealthCheck: the path is not looked at
isRootHealthCheckAnyPath(path, userAgent) ==
    \E k \in 1..Len(healthCheckUserAgents) :
        Contains(ToLower(userAgent), healthCheckUserAgents[k])

isRootHealthCheck(path, userAgent) ==
    IF path # <<"/">> THEN FALSE
    ELSE LET lowerUserAgent == ToLower(userAgent)
         IN  \E k \in 1..Len(healthCheckUserAgents) :
                 Contains(lowerUserAgent, healthCheckUserAgents[k])

-----------------------------------------------------------------------------
(* The directory client.                                                   *)

\* the entry get(namespace, name) finds, <<>> when the directory has none
Lookup(d, namespace, name) ==
    LET hits == {k \in 1..Len(d) : d[k].Namespace = namespace /\ d[k].Name = name}
    IN  IF hits = {} THEN <<>> ELSE <<d[CHOOSE k \in hits : \A j \in hits : k <= j]>>

\* the answers of a get call: the entry, NotFound, or any other failure
GetAnswers(d, namespace, name) ==
    {[err |-> "unavailable", entry |-> <<>>]}
    \cup (IF Lookup(d, namespace, name) = <<>>
          THEN {[err |-> "notfound", entry |-> <<>>]}
          ELSE {[err |-> "", entry |-> Lookup(d, namespace, name)]})

\* the answers of a list call
ListAnswers(d) == {[err |-> "unavailable", items |-> <<>>], [err |-> "", items |-> d]}

\* the client of the tests answers a list call with its own list, never an error
FakeListAnswers(d) == {[err |-> "", items |-> d]}

\* what a list call of the server's client may answer
ListOf(services, d) == IF services = "fake" THEN FakeListAnswers(d) ELSE ListAnswers(d)

-----------------------------------------------------------------------------
(* proxy, proxyErrWrapper                                                  *)

\* fault variant of proxyErrWrapper: NotFound is not told apart
ProxyErrorAlways500(r, err) == HttpError(r, err, StatusInternalServerError)

\* proxyErrWrapper on the error proxy returned
ProxyError(r, err) ==
    IF err = "notfound"
    THEN HttpError(r, "404 page not found", StatusNotFound)
    ELSE HttpError(r, err, StatusInternalServerError)

\* fault variant of proxy: only GET is proxied
ProxyBeginGetOnly(r) ==
    IF r.method # "GET"
    THEN HttpError([r EXCEPT !.handler = "proxy"], "wrong method", StatusMethodNotAllowed)
    ELSE IF Len(FindStringSubmatch(r.path)) # 5
    THEN ProxyError([r EXCEPT !.handler = "proxy"], "bad path")
    ELSE IF ParseInt(FindStringSubmatch(r.path)[4]).err # ""
    THEN ProxyError([r EXCEPT !.handler = "proxy"], ParseInt(FindStringSubmatch(r.path)[4]).err)
    ELSE [r EXCEPT !.handler = "proxy", !.pc = "get",
                   !.target = [set |-> FALSE, namespace |-> FindStringSubmatch(r.path)[2],
                               service |-> FindStringSubmatch(r.path)[3],
                               port |-> ParseInt(FindStringSubmatch(r.path)[4]).val,
                               destPath |-> FindStringSubmatch(r.path)[5]]]

\* fault variant of proxy: the error of ParseInt is dropped
ProxyBeginUnparsed(r) ==
    LET matches == FindStringSubmatch(r.path)
        r1 == [r EXCEPT !.handler = "proxy"]
    IN  IF Len(matches) # 5 THEN ProxyError(r1, "bad path")
        ELSE [r1 EXCEPT !.pc = "get",
                        !.target = [set |-> FALSE, namespace |-> matches[2],
                                    service |-> matches[3], port |-> ParseInt(matches[4]).val,
                                    destPath |-> matches[5]]]

\* proxy up to the directory call: the path is matched and the port parsed
ProxyBegin(r) ==
    LET matches == FindStringSubmatch(r.path)
        r1 == [r EXCEPT !.handler = "proxy"]
    IN  IF Len(matches) # 5 THEN ProxyError(r1, "bad path")
        ELSE LET parsed == ParseInt(matches[4]) IN
             IF parsed.err # "" THEN ProxyError(r1, parsed.err)
             ELSE [r1 EXCEPT !.pc = "get",
                             !.target = [set |-> FALSE, namespace |-> matches[2],
                                         service |-> matches[3], port |-> parsed.val,
                                         destPath |-> matches[5]]]

\* fault variant of the port scan: the protocol is not compared
PortFoundAnyProtocol(serviceMeta, parsedPort) ==
    \E k \in 1..Len(serviceMeta.Ports) : serviceMeta.Ports[k].Port = parsedPort

\* fault variant of the port scan: the number is not compared
PortFoundAnyNumber(serviceMeta, parsedPort) ==
    \E k \in 1..Len(serviceMeta.Ports) : serviceMeta.Ports[k].Protocol = "TCP"

\* a matching TCP port exists
PortFound(serviceMeta, parsedPort) ==
    \E k \in 1..Len(serviceMeta.Ports) :
        serviceMeta.Ports[k].Port = parsedPort /\ serviceMeta.Ports[k].Protocol = "TCP"

\* proxy from the answer of the directory call to the call of the reverse proxy
ProxyResolve(r, ans) ==
    LET r1 == [r EXCEPT !.gets = Append(@, <<r.target.namespace, r.target.service>>),
                        !.getAnswer = IF ans.err = "" THEN "found" ELSE ans.err]
    IN  IF ans.err # "" THEN ProxyError(r1, ans.err)
        ELSE LET serviceMeta == ans.entry[1] IN
             IF ~PortFound(serviceMeta, r.target.port)
             THEN ProxyError([r1 EXCEPT !.entry = ans.entry], "port not found")
             ELSE [r1 EXCEPT !.pc = "forward", !.entry = ans.entry, !.target.set = TRUE]

\* fault variant of the outbound request: the inbound path is kept
OutboundInboundPath(r) ==
    [scheme |-> <<"h","t","t","p">>,
     host |-> r.entry[1].ClusterIP \o <<":">> \o FormatInt(r.target.port),
     path |-> r.path,
     method |-> r.method,
     body |-> r.body]

\* the request the reverse proxy sends
Outbound(r) ==
    [scheme |-> <<"h","t","t","p">>,
     host |-> r.entry[1].ClusterIP \o <<":">> \o FormatInt(r.target.port),
     path |-> r.target.destPath,
     method |-> r.method,
     body |-> r.body]

-----------------------------------------------------------------------------
(* proxyRewriter, rewriteAbsolutePathLinks                                 *)

\* mime.ParseMediaType on the Content-Type values the model draws
ParseMediaType(v) ==
    IF v = "text/html; charset=UTF-8" THEN [mediaType |-> "text/html", err |-> FALSE]
    ELSE IF v = "text/plain" THEN [mediaType |-> "text/plain", err |-> FALSE]
    ELSE IF v = "text/html;;" THEN [mediaType |-> "text/html", err |-> TRUE]
    ELSE [mediaType |-> "", err |-> TRUE]

\* bound: the number of pieces of a document
MaxTokens == 2

CR == "%0D"

\* a document as the upstream writes it: text pieces and start tags, the
\* names, quotes and attribute values as written
TextPiece(t) == [Kind |-> "Text", Name |-> <<>>, Attrs |-> <<>>, Text |-> t]
TagPiece(name, attrs) == [Kind |-> "StartTag", Name |-> name, Attrs |-> attrs, Text |-> <<>>]
AttrPiece(key, quote, val) == [Key |-> key, Quote |-> quote, Val |-> val]

PieceInputs ==
    {TextPiece(<<"x">>),
     TextPiece(<<"&","l","t",";">>),
     TagPiece(<<"a">>, <<AttrPiece(<<"h","r","e","f">>, DQ, <<"/","x">>), AttrPiece(<<"s","r","c">>, DQ, <<"/","x">>)>>),
     TagPiece(<<"f","o","r","m">>, <<AttrPiece(<<"a","c","t","i","o","n">>, DQ, <<"/","x">>)>>),
     TagPiece(<<"l","i","n","k">>, <<AttrPiece(<<"h","r","e","f">>, DQ, <<"/","x">>)>>),
     TagPiece(<<"i","m","g">>, <<AttrPiece(<<"s","r","c">>, SQ, <<"/","x">>)>>),
     TagPiece(<<"s","c","r","i","p","t">>, <<>>)}

\* the tags whose content the tokenizer reads as raw text
RawTextTags ==
    {<<"s","c","r","i","p","t">>, <<"s","t","y","l","e">>, <<"i","f","r","a","m","e">>, <<"n","o","e","m","b","e","d">>, <<"n","o","f","r","a","m","e","s">>, <<"n","o","s","c","r","i","p","t">>, <<"x","m","p">>, <<"p","l","a","i","n","t","e","x","t">>}

\* a raw text tag is followed by its text only
WellFormed(doc) ==
    \A k \in 1..(Len(doc) - 1) :
        (doc[k].Kind = "StartTag" /\ ToLower(doc[k].Name) \in RawTextTags) =>
            doc[k + 1].Kind = "Text"

HTMLInputs == {doc \in StringsUpTo(PieceInputs, MaxTokens) : WellFormed(doc)}

BodyInputs ==
    {<<TagPiece(<<"a">>, <<AttrPiece(<<"h","r","e","f">>, DQ, <<"/","x">>), AttrPiece(<<"s","r","c">>, DQ, <<"/","x">>)>>),
       TextPiece(<<"x">>)>>,
     <<TextPiece(<<"&","l","t",";">>)>>}

RECURSIVE Flatten(_)
Flatten(ss) == IF ss = <<>> THEN <<>> ELSE Head(ss) \o Flatten(Tail(ss))

\* the bytes of a piece and of a document
AttrBytes(a) == <<" ">> \o a.Key \o <<"=">> \o a.Quote \o a.Val \o a.Quote
PieceBytes(pc) ==
    IF pc.Kind = "Text" THEN pc.Text
    ELSE <<"<">> \o pc.Name \o Flatten([k \in 1..Len(pc.Attrs) |-> AttrBytes(pc.Attrs[k])])
                 \o <<">">>
SourceBytes(doc) == Flatten([k \in 1..Len(doc) |-> PieceBytes(doc[k])])

\* html.Tokenizer: the character references unescape resolves, of those
\* the documents use
StartsAt(s, i, p) == i + Len(p) - 1 <= Len(s) /\ SubSeq(s, i, i + Len(p) - 1) = p

EntityAt(s, i) ==
    IF StartsAt(s, i, <<"&","a","m","p",";">>) THEN [len |-> 5, char |-> "&"]
    ELSE IF StartsAt(s, i, <<"&","l","t",";">>) THEN [len |-> 4, char |-> "<"]
    ELSE IF StartsAt(s, i, <<"&","g","t",";">>) THEN [len |-> 4, char |-> ">"]
    ELSE IF StartsAt(s, i, <<"&","q","u","o","t",";">>) THEN [len |-> 6, char |-> DQ]
    ELSE IF StartsAt(s, i, <<"&","#","3","4",";">>) THEN [len |-> 5, char |-> DQ]
    ELSE IF StartsAt(s, i, <<"&","#","3","9",";">>) THEN [len |-> 5, char |-> SQ]
    ELSE [len |-> 1, char |-> s[i]]

RECURSIVE UnescapeHTMLFrom(_, _, _)
UnescapeHTMLFrom(s, i, out) ==
    IF i > Len(s) THEN out
    ELSE UnescapeHTMLFrom(s, i + EntityAt(s, i).len, Append(out, EntityAt(s, i).char))

UnescapeHTML(s) == UnescapeHTMLFrom(s, 1, <<>>)

\* html.EscapeString
EscapeHTMLChar(c) ==
    IF c = "&" THEN <<"&","a","m","p",";">>
    ELSE IF c = SQ THEN <<"&","#","3","9",";">>
    ELSE IF c = "<" THEN <<"&","l","t",";">>
    ELSE IF c = ">" THEN <<"&","g","t",";">>
    ELSE IF c = DQ THEN <<"&","#","3","4",";">>
    ELSE <<c>>

EscapeHTML(s) == Flatten([k \in 1..Len(s) |-> EscapeHTMLChar(s[k])])

\* convertNewlines: CR LF and CR become LF
RECURSIVE ConvertNewlines(_)
ConvertNewlines(s) ==
    IF s = <<>> THEN <<>>
    ELSE IF Head(s) = CR
         THEN <<NL>> \o ConvertNewlines(IF Len(s) > 1 /\ s[2] = NL THEN Tail(Tail(s)) ELSE Tail(s))
         ELSE <<Head(s)>> \o ConvertNewlines(Tail(s))

\* the text of piece k is raw: it follows a raw text tag
RECURSIVE TextIsRaw(_, _)
TextIsRaw(doc, k) ==
    /\ k > 1 /\ doc[k].Kind = "Text"
    /\ \/ doc[k - 1].Kind = "StartTag" /\ ToLower(doc[k - 1].Name) \in RawTextTags
       \/ TextIsRaw(doc, k - 1)

\* atom.Lookup, on the names the documents use
KnownAtoms == {<<"a">>, <<"f","o","r","m">>, <<"l","i","n","k">>, <<"i","m","g">>, <<"s","c","r","i","p","t">>}
AtomOf(name) == IF name \in KnownAtoms THEN name ELSE <<>>

\* Tokenizer.Token: names in lower case, text and attribute values unescaped
\* (text is left as it is when it is raw)
Token(pc, raw) ==
    IF pc.Kind = "Text"
    THEN [Type |-> "Text", DataAtom |-> <<>>,
          Data |-> IF raw THEN ConvertNewlines(pc.Text)
                   ELSE UnescapeHTML(ConvertNewlines(pc.Text)),
          Attr |-> <<>>]
    ELSE [Type |-> "StartTag", DataAtom |-> AtomOf(ToLower(pc.Name)), Data |-> ToLower(pc.Name),
          Attr |-> [k \in 1..Len(pc.Attrs) |->
                      [Key |-> ToLower(pc.Attrs[k].Key),
                       Val |-> UnescapeHTML(ConvertNewlines(pc.Attrs[k].Val))]]]

\* Token.String of a start tag
TokenString(t) ==
    <<"<">> \o t.Data
            \o Flatten([k \in 1..Len(t.Attr) |->
                   <<" ">> \o t.Attr[k].Key \o <<"=", DQ>> \o EscapeHTML(t.Attr[k].Val) \o <<DQ>>])
            \o <<">">>

\* fault variant of attrRewrites: href is rewritten on every element
attrRewritesAnyElement(atom) ==
    IF atom = <<"f","o","r","m">> THEN <<"a","c","t","i","o","n">> ELSE <<"h","r","e","f">>

attrRewrites(atom) ==
    IF atom = <<"a">> THEN <<"h","r","e","f">> ELSE IF atom = <<"f","o","r","m">> THEN <<"a","c","t","i","o","n">> ELSE <<>>

\* the body of the loop up to the attribute rewrite
rewriteToken(t, rootPath) ==
    IF attrRewrites(t.DataAtom) = <<>> THEN t
    ELSE [t EXCEPT !.Attr = [k \in 1..Len(t.Attr) |->
             IF t.Attr[k].Key = attrRewrites(t.DataAtom)
             THEN [t.Attr[k] EXCEPT !.Val = rewriteURL(t.Attr[k].Val, rootPath)]
             ELSE t.Attr[k]]]

\* what the loop writes for a token: t.Data for text, t.String() otherwise
Content(t) == IF t.Type = "Text" THEN t.Data ELSE TokenString(t)

\* the tokens after the rewrite and what is written for each
RewrittenTokens(doc, rootPath) ==
    [k \in 1..Len(doc) |-> rewriteToken(Token(doc[k], TextIsRaw(doc, k)), rootPath)]

WrittenPieces(doc, rootPath) ==
    [k \in 1..Len(doc) |-> Content(rewriteToken(Token(doc[k], TextIsRaw(doc, k)), rootPath))]

rewriteAbsolutePathLinks(tokens, rootPath) == Flatten(WrittenPieces(tokens, rootPath))

RootPathOf(origData) ==
    <<"/">> \o origData.namespace \o <<"/">> \o origData.service
            \o <<"/">> \o FormatInt(origData.port)

\* fault variant of proxyRewriter: Location is rewritten for HTML only
proxyRewriterHTMLOnly(resp, origData) ==
    IF ~origData.set THEN [err |-> TRUE, resp |-> resp]
    ELSE IF ParseMediaType(resp.contentType).mediaType # "text/html"
    THEN [err |-> FALSE, resp |-> resp]
    ELSE [err |-> FALSE,
          resp |-> [resp EXCEPT
                      !.location = IF resp.location # <<>>
                                   THEN rewriteURL(resp.location, RootPathOf(origData))
                                   ELSE resp.location,
                      !.body = rewriteAbsolutePathLinks(resp.tokens, RootPathOf(origData)),
                      !.tokens = <<>>,
                      !.contentLength = <<>>]]

\* fault variant of proxyRewriter: Content-Length is not deleted
proxyRewriterKeepLength(resp, origData) ==
    IF ~origData.set THEN [err |-> TRUE, resp |-> resp]
    ELSE IF ParseMediaType(resp.contentType).mediaType # "text/html"
    THEN [err |-> FALSE,
          resp |-> [resp EXCEPT !.location = IF resp.location # <<>>
                                             THEN rewriteURL(resp.location, RootPathOf(origData))
                                             ELSE resp.location]]
    ELSE [err |-> FALSE,
          resp |-> [resp EXCEPT
                      !.location = IF resp.location # <<>>
                                   THEN rewriteURL(resp.location, RootPathOf(origData))
                                   ELSE resp.location,
                      !.body = rewriteAbsolutePathLinks(resp.tokens, RootPathOf(origData)),
                      !.tokens = <<>>]]

\* fault variant of proxyRewriter: the hook goes on when the context holds no
\* origRequestData, with the zero value
proxyRewriterUnchecked(resp, origData) ==
    IF ParseMediaType(resp.contentType).mediaType # "text/html"
    THEN [err |-> FALSE,
          resp |-> [resp EXCEPT !.location = IF resp.location # <<>>
                                             THEN rewriteURL(resp.location, RootPathOf(origData))
                                             ELSE resp.location]]
    ELSE [err |-> FALSE,
          resp |-> [resp EXCEPT
                      !.location = IF resp.location # <<>>
                                   THEN rewriteURL(resp.location, RootPathOf(origData))
                                   ELSE resp.location,
                      !.body = rewriteAbsolutePathLinks(resp.tokens, RootPathOf(origData)),
                      !.tokens = <<>>,
                      !.contentLength = <<>>]]

\* [err |-> BOOLEAN, resp |-> the response as the hook leaves it]
proxyRewriter(resp, origData) ==
    IF ~origData.set THEN [err |-> TRUE, resp |-> resp]
    ELSE LET rootPath == RootPathOf(origData)
             r1 == IF resp.location # <<>>
                   THEN [resp EXCEPT !.location = rewriteURL(resp.location, rootPath)]
                   ELSE resp
             mt == ParseMediaType(resp.contentType)
         IN  IF mt.mediaType # "text/html" THEN [err |-> FALSE, resp |-> r1]
             ELSE [err |-> FALSE,
                   resp |-> [r1 EXCEPT !.body = rewriteAbsolutePathLinks(resp.tokens, rootPath),
                                       !.tokens = <<>>,
                                       !.contentLength = <<>>]]

-----------------------------------------------------------------------------
(* rootHandler and the listing                                             *)

\* s < t for strings, byte by byte
RECURSIVE StrLess(_, _)
StrLess(s, t) ==
    IF t = <<>> THEN FALSE
    ELSE IF s = <<>> THEN TRUE
    ELSE IF Head(s) # Head(t) THEN Code(Head(s)) < Code(Head(t))
    ELSE StrLess(Tail(s), Tail(t))

\* the less function rootHandler hands to sort.Slice
ServiceLess(a, b) ==
    IF a.Namespace # b.Namespace THEN StrLess(a.Namespace, b.Namespace)
    ELSE StrLess(a.Name, b.Name)

\* sort.Slice: a permutation of the items that the less function orders
SortServices(items) ==
    LET n == Len(items)
        perms == {p \in [1..n -> 1..n] : \A a, b \in 1..n : a # b => p[a] # p[b]}
        p == CHOOSE q \in perms :
                 \A a, b \in 1..n : a < b => ~ServiceLess(items[q[b]], items[q[a]])
    IN  [k \in 1..n |-> items[p[k]]]

\* fault variant of the port filter: every port is kept
TcpPortsAnyProtocol(ports) == ports

\* the ports rootHandler keeps for the template
TcpPorts(ports) == SelectSeq(ports, LAMBDA p : p.Protocol = "TCP")

\* the loop that groups the sorted items by namespace
RECURSIVE GroupServices(_, _, _)
GroupServices(items, lastNamespace, namespaces) ==
    IF items = <<>> THEN namespaces
    ELSE LET s == Head(items)
             ns1 == IF s.Namespace # lastNamespace
                    THEN Append(namespaces, [Name |-> s.Namespace, Services |-> <<>>])
                    ELSE namespaces
             svc == [Name |-> s.Name, ClusterIP |-> s.ClusterIP, TCPPorts |-> TcpPorts(s.Ports)]
         IN  \* with no group yet the code indexes data.Namespaces[-1] and panics;
             \* net/http recovers the panic and the connection is dropped
             IF ns1 = <<>> THEN <<>>
             ELSE GroupServices(Tail(items), s.Namespace,
                      [ns1 EXCEPT ![Len(ns1)].Services = Append(@, svc)])

\* fault variant of rootHandler: every non-proxy path is listed
RootBeginAnyPath(r) ==
    IF MatchString(r.path) THEN ProxyBegin(r)
    ELSE LET r1 == [r EXCEPT !.handler = "root"] IN
         IF r.method # "GET" THEN HttpError(r1, "wrong method", StatusMethodNotAllowed)
         ELSE [r1 EXCEPT !.pc = "list"]

\* rootHandler up to the directory call
RootBegin(r) ==
    IF MatchString(r.path) THEN ProxyBegin(r)
    ELSE LET r1 == [r EXCEPT !.handler = "root"] IN
         IF r.method # "GET" THEN HttpError(r1, "wrong method", StatusMethodNotAllowed)
         ELSE IF r.path # <<"/">> THEN HttpError(r1, "not found", StatusNotFound)
         ELSE [r1 EXCEPT !.pc = "list"]

\* the grouping loop indexes data.Namespaces[-1] and panics: the first of
\* the sorted items has the namespace lastNamespace starts with
RootPanics(sorted) == sorted # <<>> /\ GroupServices(sorted, <<>>, <<>>) = <<>>

\* the links the template writes: one for each TCP port of each listed service
RECURSIVE PortLinks(_, _, _)
PortLinks(namespace, service, ports) ==
    IF ports = <<>> THEN <<>>
    ELSE <<(<<"/">> \o namespace \o <<"/">> \o service \o <<"/">>
             \o FormatInt(Head(ports).Port) \o <<"/">>)>>
         \o PortLinks(namespace, service, Tail(ports))

\* rootTemplate: for each namespace its name and the list of its services,
\* each with its name and its links
RenderService(namespace, svc) ==
    [Name |-> svc.Name, Links |-> PortLinks(namespace, svc.Name, svc.TCPPorts)]

RenderNamespace(ns) ==
    [Name |-> ns.Name,
     Items |-> [k \in 1..Len(ns.Services) |-> RenderService(ns.Name, ns.Services[k])]]

rootTemplate(data) == [k \in 1..Len(data) |-> RenderNamespace(data[k])]

\* rootHandler from the answer of the directory call; a panic is recovered
\* by net/http, which drops the connection without a response
RootRender(r, ans) ==
    LET r1 == [r EXCEPT !.lists = @ + 1]
    IN  IF ans.err # "" THEN HttpError(r1, ans.err, StatusInternalServerError)
        ELSE IF RootPanics(SortServices(ans.items))
        THEN [r1 EXCEPT !.pc = "done", !.panicked = TRUE]
        ELSE [Respond(r1, StatusOK, "text/html; charset=utf-8", "")
                EXCEPT !.listing = rootTemplate(GroupServices(SortServices(ans.items),
                                                              <<>>, <<>>))]

-----------------------------------------------------------------------------
(* http.ServeMux                                                           *)

\* cleanPath of net/http
cleanPath(p) ==
    IF p = <<>> THEN <<"/">>
    ELSE LET p1 == IF p[1] # "/" THEN <<"/">> \o p ELSE p
             np == Clean(p1)
         IN  IF p1[Len(p1)] = "/" /\ np # <<"/">>
             THEN (IF Len(p1) = Len(np) + 1 /\ HasPrefix(p1, np) THEN p1 ELSE np \o <<"/">>)
             ELSE np

\* insecureMux: patterns "/" (rootHandler) and "/health" (healthHandler); a
\* request whose path is not clean is redirected to the clean path
ServeMux(r) ==
    IF cleanPath(r.path) # r.path
    THEN [Respond([r EXCEPT !.handler = "redirect"], StatusMovedPermanently, "", "")
            EXCEPT !.resp.location = cleanPath(r.path)]
    ELSE IF r.path = HealthPath THEN healthHandler(r)
    ELSE RootBegin(r)

-----------------------------------------------------------------------------
(* The actions.                                                            *)

\* main checks its permissions: a list call with limit 1; main panics when
\* the call fails and goes on to listen when it succeeds.  checks holds the
\* limit of each such call and answer what the last one returned.
checkPermissions ==
    /\ main.pc = "check"
    /\ \E ans \in ListOf(main.services, dir) :
         main' = [main EXCEPT !.checks = Append(@, 1),
                              !.answer = IF ans.err # "" THEN ans.err ELSE "ok",
                              !.pc = IF ans.err # "" THEN "panicked" ELSE "serving"]
    /\ UNCHANGED <<dir, reqs, pathIn, pathOut, urlIn, urlOut, htmlIn, htmlOut>>

\* fault variant of Receive: requests are taken before main has checked
ReceiveUnchecked(i) ==
    /\ reqs[i].pc = "idle"
    /\ \E p \in PathInputs, m \in MethodInputs, ua \in UserAgentInputs, v \in BOOLEAN :
         \E b \in RequestBodyInputs(m) :
             reqs' = [reqs EXCEPT ![i] = [Idle EXCEPT !.pc = "recv", !.path = p, !.method = m,
                                                      !.body = b, !.userAgent = ua,
                                                      !.iapValid = v]]
    /\ UNCHANGED <<main, dir, pathIn, pathOut, urlIn, urlOut, htmlIn, htmlOut>>

\* a request arrives at the listening server
Receive(i) ==
    /\ main.pc = "serving"
    /\ reqs[i].pc = "idle"
    /\ \E p \in PathInputs, m \in MethodInputs, ua \in UserAgentInputs, v \in BOOLEAN :
         \E b \in RequestBodyInputs(m) :
             reqs' = [reqs EXCEPT ![i] = [Idle EXCEPT !.pc = "recv", !.path = p, !.method = m,
                                                      !.body = b, !.userAgent = ua,
                                                      !.iapValid = v]]
    /\ UNCHANGED <<main, dir, pathIn, pathOut, urlIn, urlOut, htmlIn, htmlOut>>

\* the handler makeSecureHandler returns: health checks bypass the IAP gate
SecureHandler(i) ==
    /\ reqs[i].pc = "recv"
    /\ reqs' = [reqs EXCEPT ![i] =
                  IF isRootHealthCheck(@.path, @.userAgent) \/ @.path = HealthPath
                  THEN healthHandler([@ EXCEPT !.bypassed = TRUE])
                  ELSE [@ EXCEPT !.pc = "iap"]]
    /\ UNCHANGED <<main, dir, pathIn, pathOut, urlIn, urlOut, htmlIn, htmlOut>>

\* fault variant of iap.Required: the assertion is not verified
IAPRequiredAcceptAll(i) ==
    /\ reqs[i].pc = "iap"
    /\ reqs' = [reqs EXCEPT ![i] = [@ EXCEPT !.pc = "mux"]]
    /\ UNCHANGED <<main, dir, pathIn, pathOut, urlIn, urlOut, htmlIn, htmlOut>>

\* iap.Required: the wrapped mux is served only for a verified assertion
IAPRequired(i) ==
    /\ reqs[i].pc = "iap"
    /\ reqs' = [reqs EXCEPT ![i] =
                  IF @.iapValid THEN [@ EXCEPT !.pc = "mux", !.iapAccepted = TRUE]
                  ELSE HttpError([@ EXCEPT !.iapRejected = TRUE], "forbidden", StatusForbidden)]
    /\ UNCHANGED <<main, dir, pathIn, pathOut, urlIn, urlOut, htmlIn, htmlOut>>

\* insecureMux dispatches, and the handler runs up to its directory call
Dispatch(i) ==
    /\ reqs[i].pc = "mux"
    /\ reqs' = [reqs EXCEPT ![i] = ServeMux(@)]
    /\ UNCHANGED <<main, dir, pathIn, pathOut, urlIn, urlOut, htmlIn, htmlOut>>

\* s.services.get answers and proxy goes on to the reverse proxy
DirectoryGet(i) ==
    /\ reqs[i].pc = "get"
    /\ \E ans \in GetAnswers(dir, reqs[i].target.namespace, reqs[i].target.service) :
         reqs' = [reqs EXCEPT ![i] = ProxyResolve(@, ans)]
    /\ UNCHANGED <<main, dir, pathIn, pathOut, urlIn, urlOut, htmlIn, htmlOut>>

\* s.services.list answers and rootHandler renders the page; sort.Slice
\* sorts the list it was handed in place, which is the directory's own list
\* when the client hands that out
DirectoryList(i) ==
    /\ reqs[i].pc = "list"
    /\ \E ans \in ListOf(main.services, dir) :
         /\ reqs' = [reqs EXCEPT ![i] = RootRender(@, ans)]
         /\ dir' = IF main.services = "fake" /\ ans.err = "" THEN SortServices(dir) ELSE dir
    /\ UNCHANGED <<main, pathIn, pathOut, urlIn, urlOut, htmlIn, htmlOut>>

\* the reverse proxy sends the request; the upstream answers, or the round
\* trip fails and the reverse proxy answers 502
Forward(i) ==
    /\ reqs[i].pc = "forward"
    /\ \/ \E st \in UpstreamStatusInputs, loc \in LocationInputs,
            ct \in ContentTypeInputs, body \in BodyInputs :
            reqs' = [reqs EXCEPT ![i] =
                       [@ EXCEPT !.pc = "hook", !.forwards = Append(@, Outbound(reqs[i])),
                                 !.upstream = [status |-> st, contentType |-> ct,
                                               location |-> loc,
                                               contentLength |-> <<Len(SourceBytes(body))>>,
                                               text |-> "", tokens |-> body,
                                               body |-> SourceBytes(body)]]]
       \/ reqs' = [reqs EXCEPT ![i] =
                     Respond([@ EXCEPT !.forwards = Append(@, Outbound(reqs[i]))],
                             StatusBadGateway, "", "")]
    /\ UNCHANGED <<main, dir, pathIn, pathOut, urlIn, urlOut, htmlIn, htmlOut>>

\* fault variant of ModifyResponse: the hook takes the origRequestData of any
\* request in flight, as if the server kept it in a field of its own
ModifyResponseAnyRequest(i) ==
    /\ reqs[i].pc = "hook"
    /\ \E j \in DOMAIN reqs :
         /\ reqs[j].target.set
         /\ reqs' = [reqs EXCEPT ![i] =
                       IF proxyRewriter(reqs[i].upstream, reqs[j].target).err
                       THEN Respond(@, StatusBadGateway, "", "")
                       ELSE [@ EXCEPT !.pc = "done", !.responses = @ + 1,
                                      !.resp = proxyRewriter(reqs[i].upstream,
                                                             reqs[j].target).resp]]
    /\ UNCHANGED <<main, dir, pathIn, pathOut, urlIn, urlOut, htmlIn, htmlOut>>

\* ModifyResponse runs and the response is copied to the client
ModifyResponse(i) ==
    /\ reqs[i].pc = "hook"
    /\ LET out == proxyRewriter(reqs[i].upstream, reqs[i].target)
       IN  reqs' = [reqs EXCEPT ![i] =
                      IF out.err THEN Respond([@ EXCEPT !.hooked = out.resp],
                                              StatusBadGateway, "", "")
                      ELSE [@ EXCEPT !.pc = "done", !.responses = @ + 1,
                                     !.hooked = out.resp, !.resp = out.resp]]
    /\ UNCHANGED <<main, dir, pathIn, pathOut, urlIn, urlOut, htmlIn, htmlOut>>

\* the request is over and the slot takes the next one
Finish(i) ==
    /\ reqs[i].pc = "done"
    /\ reqs' = [reqs EXCEPT ![i] = Idle]
    /\ UNCHANGED <<main, dir, pathIn, pathOut, urlIn, urlOut, htmlIn, htmlOut>>

\* main builds the server on kubernetesAPIClient and has yet to check its
\* permissions
Init ==
    /\ main = [pc |-> "check", checks |-> <<>>, answer |-> "", services |-> "api"]
    /\ dir \in DirInputs
    /\ reqs = [i \in Slots |-> Idle]
    /\ pathIn = <<>> /\ pathOut = <<>>
    /\ urlIn = <<>> /\ urlOut = <<>>
    /\ htmlIn = <<>> /\ htmlOut = <<>>

Next ==
    \/ checkPermissions
    \/ \E i \in Slots :
        \/ Receive(i)
        \/ SecureHandler(i)
        \/ IAPRequired(i)
        \/ Dispatch(i)
        \/ DirectoryGet(i)
        \/ DirectoryList(i)
        \/ Forward(i)
        \/ ModifyResponse(i)
        \/ Finish(i)

Spec == Init /\ [][Next]_vars

-----------------------------------------------------------------------------
(* servicePattern on its own: every path over a small alphabet.            *)

PathAlphabet == {"/", "a", NL}

InitPath ==
    /\ pathIn \in StringsUpTo(PathAlphabet, MaxPathLen)
    /\ pathOut = [done |-> FALSE, matches |-> <<>>]
    /\ main = Serving("api") /\ dir = <<>> /\ reqs = [i \in Slots |-> Idle]
    /\ urlIn = <<>> /\ urlOut = <<>>
    /\ htmlIn = <<>> /\ htmlOut = <<>>

MatchPath ==
    /\ ~pathOut.done
    /\ pathOut' = [done |-> TRUE, matches |-> FindStringSubmatch(pathIn)]
    /\ UNCHANGED <<main, dir, reqs, pathIn, urlIn, urlOut, htmlIn, htmlOut>>

NextPath == MatchPath

SpecPath == InitPath /\ [][NextPath]_vars

-----------------------------------------------------------------------------
(* rewriteURL on its own: every URL string over a small alphabet.          *)

URLAlphabet == {"/", "a", ":", "?", "#", ".", "%"}

RootPathInputs == {<<"/","n","/","s","/","8","0">>, <<"/">>}

InitURL ==
    /\ urlIn \in {[url |-> u, root |-> rt] :
                    u \in StringsUpTo(URLAlphabet, MaxURLLen), rt \in RootPathInputs}
    /\ urlOut = [done |-> FALSE, url |-> <<>>, again |-> FALSE, url2 |-> <<>>]
    /\ main = Serving("api") /\ dir = <<>> /\ reqs = [i \in Slots |-> Idle]
    /\ pathIn = <<>> /\ pathOut = <<>>
    /\ htmlIn = <<>> /\ htmlOut = <<>>

Rewrite ==
    /\ ~urlOut.done
    /\ urlOut' = [urlOut EXCEPT !.done = TRUE, !.url = rewriteURL(urlIn.url, urlIn.root)]
    /\ UNCHANGED <<main, dir, reqs, pathIn, pathOut, urlIn, htmlIn, htmlOut>>

\* the result is rewritten once more with the same root, as when a rewritten
\* body goes through the rewriter a second time
RewriteAgain ==
    /\ urlOut.done /\ ~urlOut.again
    /\ urlOut' = [urlOut EXCEPT !.again = TRUE, !.url2 = rewriteURL(urlOut.url, urlIn.root)]
    /\ UNCHANGED <<main, dir, reqs, pathIn, pathOut, urlIn, htmlIn, htmlOut>>

NextURL == Rewrite \/ RewriteAgain

SpecURL == InitURL /\ [][NextURL]_vars

-----------------------------------------------------------------------------
(* rewriteAbsolutePathLinks on its own: every document of a few pieces.    *)

InitHTML ==
    /\ htmlIn \in {[doc |-> d, root |-> rt] : d \in HTMLInputs, rt \in RootPathInputs}
    /\ htmlOut = [done |-> FALSE, tokens |-> <<>>, pieces |-> <<>>, body |-> <<>>]
    /\ main = Serving("api") /\ dir = <<>> /\ reqs = [i \in Slots |-> Idle]
    /\ pathIn = <<>> /\ pathOut = <<>>
    /\ urlIn = <<>> /\ urlOut = <<>>

\* the loop runs to the end of the document; tokens and pieces record what
\* each turn of the loop had and wrote
RewriteHTML ==
    /\ ~htmlOut.done
    /\ htmlOut' = [done |-> TRUE,
                   tokens |-> RewrittenTokens(htmlIn.doc, htmlIn.root),
                   pieces |-> WrittenPieces(htmlIn.doc, htmlIn.root),
                   body |-> rewriteAbsolutePathLinks(htmlIn.doc, htmlIn.root)]
    /\ UNCHANGED <<main, dir, reqs, pathIn, pathOut, urlIn, urlOut, htmlIn>>

NextHTML == RewriteHTML

SpecHTML == InitHTML /\ [][NextHTML]_vars

-----------------------------------------------------------------------------
(* The listing on its own: a server built by newServer on either client,   *)
(* over directories of several services, asked for the listing.            *)

\* the services a directory is drawn from: no two share (namespace, name)
ListServiceInputs ==
    {[Namespace |-> <<>>, Name |-> <<"x">>, ClusterIP |-> <<"c">>,
      Ports |-> <<[Name |-> <<>>, Port |-> 80, Protocol |-> "TCP"]>>],
     [Namespace |-> <<"a">>, Name |-> <<"x">>, ClusterIP |-> <<"c">>,
      Ports |-> <<[Name |-> <<>>, Port |-> 80, Protocol |-> "TCP"],
                  [Name |-> <<>>, Port |-> 53, Protocol |-> "UDP"]>>],
     [Namespace |-> <<"a">>, Name |-> <<"z">>, ClusterIP |-> <<"c">>, Ports |-> <<>>],
     [Namespace |-> <<"b">>, Name |-> <<"y">>, ClusterIP |-> <<"c">>,
      Ports |-> <<[Name |-> <<>>, Port |-> 53, Protocol |-> "UDP"]>>],
     [Namespace |-> <<"b">>, Name |-> <<"x">>, ClusterIP |-> <<"c">>,
      Ports |-> <<[Name |-> <<>>, Port |-> 81, Protocol |-> "SCTP"],
                  [Name |-> <<>>, Port |-> 80, Protocol |-> "TCP"],
                  [Name |-> <<>>, Port |-> 81, Protocol |-> "TCP"]>>]}

ListDirInputs == StringsUpTo(ListServiceInputs, MaxServices)

InitList ==
    /\ main \in {Serving("api"), Serving("fake")}
    /\ dir \in ListDirInputs
    /\ reqs = [i \in Slots |-> Idle]
    /\ pathIn = <<>> /\ pathOut = <<>>
    /\ urlIn = <<>> /\ urlOut = <<>>
    /\ htmlIn = <<>> /\ htmlOut = <<>>

\* a GET of the root path arrives
ReceiveRoot(i) ==
    /\ main.pc = "serving"
    /\ reqs[i].pc = "idle"
    /\ \E ua \in UserAgentInputs, v \in BOOLEAN :
         reqs' = [reqs EXCEPT ![i] = [Idle EXCEPT !.pc = "recv", !.path = <<"/">>,
                                                  !.method = "GET", !.userAgent = ua,
                                                  !.iapValid = v]]
    /\ UNCHANGED <<main, dir, pathIn, pathOut, urlIn, urlOut, htmlIn, htmlOut>>

NextList ==
    \E i \in Slots :
        \/ ReceiveRoot(i)
        \/ SecureHandler(i)
        \/ IAPRequired(i)
        \/ Dispatch(i)
        \/ DirectoryList(i)
        \/ Finish(i)

SpecList == InitList /\ [][NextList]_vars

-----------------------------------------------------------------------------
(* The reverse proxy on its own: newServer builds it with proxyRewriter as *)
(* ModifyResponse, and its ServeHTTP is handed a request whose context     *)
(* holds the origRequestData or does not.                                  *)

HookPathInputs == {<<"/","n","/","s","/","8","0">>, <<"/","n","/","s","/","8","0","/","a">>}

InitHook ==
    /\ main = Serving("api")
    /\ dir \in {d \in DirInputs : d # <<>> /\ PortFound(d[1], 80)}
    /\ reqs \in {[i \in Slots |->
                    [Idle EXCEPT !.pc = "forward", !.path = p, !.method = "GET",
                                 !.handler = "proxy", !.entry = <<dir[1]>>,
                                 !.target = [set |-> inContext, namespace |-> <<"n">>,
                                             service |-> <<"s">>, port |-> 80,
                                             destPath |-> FindStringSubmatch(p)[5]]]] :
                  p \in HookPathInputs, inContext \in BOOLEAN}
    /\ pathIn = <<>> /\ pathOut = <<>>
    /\ urlIn = <<>> /\ urlOut = <<>>
    /\ htmlIn = <<>> /\ htmlOut = <<>>

NextHook ==
    \E i \in Slots :
        \/ Forward(i)
        \/ ModifyResponse(i)
        \/ Finish(i)

SpecHook == InitHook /\ [][NextHook]_vars

-----------------------------------------------------------------------------
(* The port segment on its own: requests for /n/s/{port} over many port    *)
(* strings, some beyond 32 bits, and a service with several TCP ports.     *)

PortAlphabet == {"+", "-", "0", "8", "x"}

\* every short string over the alphabet, and numbers at and beyond the ends
\* of the int32 range
PortStringInputs ==
    (StringsUpTo(PortAlphabet, MaxPortLen) \ {<<>>})
    \cup {<<"2","1","4","7","4","8","3","6","4","7">>,
          <<"2","1","4","7","4","8","3","6","4","8">>,
          <<"-","2","1","4","7","4","8","3","6","4","8">>,
          <<"-","2","1","4","7","4","8","3","6","4","9">>,
          <<"4","2","9","4","9","6","7","3","7","6">>,
          <<"4","2","9","4","9","6","7","3","0","4">>,
          <<"0","4","2","9","4","9","6","7","3","7","6">>,
          <<"8","5","8","9","9","3","4","6","7","2">>,
          <<"+","4","2","9","4","9","6","7","3","7","6">>,
          <<"-","4","2","9","4","9","6","7","2","1","6">>}

PortDir ==
    <<[Namespace |-> <<"n">>, Name |-> <<"s">>, ClusterIP |-> <<"c">>,
       Ports |-> <<[Name |-> <<>>, Port |-> 80, Protocol |-> "TCP"],
                   [Name |-> <<>>, Port |-> 8, Protocol |-> "TCP"],
                   [Name |-> <<>>, Port |-> 88, Protocol |-> "UDP"],
                   [Name |-> <<>>, Port |-> MaxInt32, Protocol |-> "TCP"]>>]>>

InitPort ==
    /\ main = Serving("api")
    /\ dir = PortDir
    /\ reqs = [i \in Slots |-> Idle]
    /\ pathIn = <<>> /\ pathOut = <<>>
    /\ urlIn = <<>> /\ urlOut = <<>>
    /\ htmlIn = <<>> /\ htmlOut = <<>>

\* an authenticated GET of /n/s/{port} arrives
ReceivePort(i) ==
    /\ main.pc = "serving"
    /\ reqs[i].pc = "idle"
    /\ \E port \in PortStringInputs :
         reqs' = [reqs EXCEPT ![i] = [Idle EXCEPT !.pc = "recv",
                                                  !.path = <<"/","n","/","s","/">> \o port,
                                                  !.method = "GET",
                                                  !.userAgent = <<"M","o","z","i","l","l","a","/","5">>,
                                                  !.iapValid = TRUE]]
    /\ UNCHANGED <<main, dir, pathIn, pathOut, urlIn, urlOut, htmlIn, htmlOut>>

NextPort ==
    \E i \in Slots :
        \/ ReceivePort(i)
        \/ SecureHandler(i)
        \/ IAPRequired(i)
        \/ Dispatch(i)
        \/ DirectoryGet(i)
        \/ Forward(i)
        \/ ModifyResponse(i)
        \/ Finish(i)

SpecPort == InitPort /\ [][NextPort]_vars

-----------------------------------------------------------------------------
(* Two requests served at once: net/http runs each request on a goroutine  *)
(* of its own, and the steps of the two interleave in every way.           *)

PairSlots == {1, 2}

\* two services, each with the TCP port 80
PairDir ==
    <<[Namespace |-> <<"n">>, Name |-> <<"s">>, ClusterIP |-> <<"c">>,
       Ports |-> <<[Name |-> <<>>, Port |-> 80, Protocol |-> "TCP"]>>],
      [Namespace |-> <<"n">>, Name |-> <<"t">>, ClusterIP |-> <<"d">>,
       Ports |-> <<[Name |-> <<>>, Port |-> 80, Protocol |-> "TCP"]>>]>>

PairPathInputs ==
    {<<"/","n","/","s","/","8","0","/","a">>, <<"/","n","/","t","/","+","8","0">>}

InitPair ==
    /\ main = Serving("api")
    /\ dir = PairDir
    /\ reqs = [i \in PairSlots |-> Idle]
    /\ pathIn = <<>> /\ pathOut = <<>>
    /\ urlIn = <<>> /\ urlOut = <<>>
    /\ htmlIn = <<>> /\ htmlOut = <<>>

\* an authenticated GET of a proxy path arrives
ReceiveProxy(i) ==
    /\ main.pc = "serving"
    /\ reqs[i].pc = "idle"
    /\ \E p \in PairPathInputs :
         reqs' = [reqs EXCEPT ![i] = [Idle EXCEPT !.pc = "recv", !.path = p,
                                                  !.method = "GET",
                                                  !.userAgent = <<"M","o","z","i","l","l","a","/","5">>,
                                                  !.iapValid = TRUE]]
    /\ UNCHANGED <<main, dir, pathIn, pathOut, urlIn, urlOut, htmlIn, htmlOut>>

NextPair ==
    \E i \in PairSlots :
        \/ ReceiveProxy(i)
        \/ SecureHandler(i)
        \/ IAPRequired(i)
        \/ Dispatch(i)
        \/ DirectoryGet(i)
        \/ Forward(i)
        \/ ModifyResponse(i)
        \/ Finish(i)

SpecPair == InitPair /\ [][NextPair]_vars


-----------------------------------------------------------------------------
(* The path grammar and the port segment as the specification words them, *)
(* written without the regular expression and without ParseInt.           *)

\* the first "/" of p at or after position i, Len(p) + 1 when there is none
NextSlash(p, i) ==
    IF \E k \in i..Len(p) : p[k] = "/"
    THEN CHOOSE k \in i..Len(p) : p[k] = "/" /\ \A j \in i..(k - 1) : p[j] # "/"
    ELSE Len(p) + 1

SecondSlash(p) == NextSlash(p, 2)
ThirdSlash(p) == NextSlash(p, SecondSlash(p) + 1)
RestStart(p) == NextSlash(p, ThirdSlash(p) + 1)

\* p is /<s1>/<s2>/<s3><rest>, the segments non-empty and free of "/"
HasProxyForm(p) ==
    /\ p # <<>> /\ p[1] = "/"
    /\ SecondSlash(p) > 2 /\ SecondSlash(p) <= Len(p)
    /\ ThirdSlash(p) > SecondSlash(p) + 1 /\ ThirdSlash(p) <= Len(p)
    /\ RestStart(p) > ThirdSlash(p) + 1

NamespaceSegment(p) == SubSeq(p, 2, SecondSlash(p) - 1)
ServiceSegment(p) == SubSeq(p, SecondSlash(p) + 1, ThirdSlash(p) - 1)
PortSegment(p) == SubSeq(p, ThirdSlash(p) + 1, RestStart(p) - 1)
RestOfPath(p) == SubSeq(p, RestStart(p), Len(p))

Unsigned(s) == IF s # <<>> /\ s[1] \in {"+", "-"} THEN Tail(s) ELSE s

\* s is a base-10 integer: an optional sign and at least one digit
IsDecimalInteger(s) ==
    Unsigned(s) # <<>> /\ \A k \in 1..Len(Unsigned(s)) : IsDigit(Unsigned(s)[k])

RECURSIVE DigitsValue(_)
DigitsValue(d) ==
    IF d = <<>> THEN 0
    ELSE 10 * DigitsValue(SubSeq(d, 1, Len(d) - 1)) + DigitVal(d[Len(d)])

\* the number a base-10 integer of at most nine digits denotes
DecimalValue(s) ==
    IF s # <<>> /\ s[1] = "-" THEN 0 - DigitsValue(Unsigned(s)) ELSE DigitsValue(Unsigned(s))

\* the directory holds the service the path names, with a TCP port of the
\* number the path names
AdvertisesTCP(d, p) ==
    \E k \in 1..Len(d) :
        /\ HasProxyForm(p) /\ IsDecimalInteger(PortSegment(p))
        /\ d[k].Namespace = NamespaceSegment(p) /\ d[k].Name = ServiceSegment(p)
        /\ \E j \in 1..Len(d[k].Ports) :
             /\ d[k].Ports[j].Protocol = "TCP"
             /\ d[k].Ports[j].Port = DecimalValue(PortSegment(p))

DirectoryHolds(d, p) ==
    \E k \in 1..Len(d) :
        HasProxyForm(p) /\ d[k].Namespace = NamespaceSegment(p) /\ d[k].Name = ServiceSegment(p)

NoDirectoryCall(r) == r.gets = <<>> /\ r.lists = 0
NoForward(r) == r.forwards = <<>>
Rejected(r) == r.pc = "done" /\ r.resp.status >= 400

-----------------------------------------------------------------------------
(* Properties of the request handling (specification Spec).                *)

\* C1: a request is forwarded only if its path has the proxy form, its port
\* segment is a base-10 integer, the directory returned an entry for the
\* namespace and service, and that entry advertises a TCP port of that
\* number; a request the proxy handler finished without forwarding was
\* rejected with an error status.
C1_ForwardOnlyToAdvertisedTCPPort ==
    \A i \in Slots :
        /\ ~NoForward(reqs[i]) =>
               /\ HasProxyForm(reqs[i].path)
               /\ IsDecimalInteger(PortSegment(reqs[i].path))
               /\ reqs[i].getAnswer = "found"
               /\ AdvertisesTCP(dir, reqs[i].path)
        /\ (HasProxyForm(reqs[i].path) /\ ~AdvertisesTCP(dir, reqs[i].path)) =>
               /\ NoForward(reqs[i])
               /\ (reqs[i].handler = "proxy" /\ reqs[i].pc = "done") => Rejected(reqs[i])

\* C1 witness: a request was forwarded to port 80 of a service that
\* advertises a UDP port as well
C1_Witness ==
    \E i \in Slots :
        /\ Len(reqs[i].forwards) = 1
        /\ reqs[i].forwards[1].host = <<"c", ":", "8", "0">>
        /\ \E j \in 1..Len(dir[1].Ports) : dir[1].Ports[j].Protocol = "UDP"

\* C2: the listing handler and the proxy run only for a request the
\* authentication gate accepted; a request the gate rejects causes no
\* directory call and no forward; a bypassed request gets the health answer
\* and causes no directory call, no listing and no forward.
C2_AuthGateBeforeHandlers ==
    \A i \in Slots :
        /\ reqs[i].handler \in {"root", "proxy"} =>
               ~reqs[i].bypassed /\ reqs[i].iapValid /\ reqs[i].iapAccepted
        /\ (~NoDirectoryCall(reqs[i]) \/ ~NoForward(reqs[i])) =>
               ~reqs[i].bypassed /\ reqs[i].iapValid
        /\ (reqs[i].pc \notin {"idle", "recv"} /\ ~reqs[i].bypassed /\ ~reqs[i].iapValid) =>
               /\ NoDirectoryCall(reqs[i]) /\ NoForward(reqs[i])
               /\ reqs[i].handler = ""
               /\ reqs[i].pc = "done" => reqs[i].resp.status = StatusForbidden
        /\ reqs[i].bypassed =>
               /\ reqs[i].pc = "done" /\ reqs[i].handler = "health"
               /\ NoDirectoryCall(reqs[i]) /\ NoForward(reqs[i]) /\ reqs[i].listing = <<>>
               /\ reqs[i].resp.text \in {"ok\n", "invalid method"}

\* C2 witness: the gate rejected a request for a proxy path of a service
\* the directory holds
C2_Witness ==
    \E i \in Slots :
        /\ reqs[i].iapRejected /\ reqs[i].pc = "done"
        /\ HasProxyForm(reqs[i].path) /\ AdvertisesTCP(dir, reqs[i].path)

\* C3: a request bypasses authentication if and only if its path is /health,
\* or its path is / and its lower-cased User-Agent contains "googlehc/" or
\* "kube-probe/".
C3_BypassIff ==
    \A i \in Slots :
        reqs[i].pc \notin {"idle", "recv"} =>
            (reqs[i].bypassed <=>
                \/ reqs[i].path = <<"/","h","e","a","l","t","h">>
                \/ /\ reqs[i].path = <<"/">>
                   /\ \/ Contains(ToLower(reqs[i].userAgent),
                                  <<"g","o","o","g","l","e","h","c","/">>)
                      \/ Contains(ToLower(reqs[i].userAgent),
                                  <<"k","u","b","e","-","p","r","o","b","e","/">>))

\* C3 witness: a health-check User-Agent on another path went to the gate
C3_Witness ==
    \E i \in Slots :
        /\ reqs[i].pc = "iap" /\ reqs[i].path = <<"/","o">>
        /\ reqs[i].userAgent = <<"G","o","o","g","l","e","H","C","/","1">>

\* C4: a bypassed GET request is answered 200, text/plain, "ok\n"; a
\* bypassed request of another method is answered 405; whatever the
\* directory holds and whether or not the request carries a valid assertion.
C4_HealthAnswer ==
    \A i \in Slots :
        (reqs[i].bypassed /\ reqs[i].pc = "done") =>
            IF reqs[i].method = "GET"
            THEN /\ reqs[i].resp.status = 200
                 /\ reqs[i].resp.contentType = "text/plain;charset=utf-8"
                 /\ reqs[i].resp.text = "ok\n"
            ELSE reqs[i].resp.status = 405

\* C4 witness: a bypassed POST without a valid assertion was answered
C4_Witness ==
    \E i \in Slots :
        /\ reqs[i].bypassed /\ reqs[i].pc = "done" /\ reqs[i].method = "POST"
        /\ ~reqs[i].iapValid /\ dir # <<>>

\* the path has no empty, "." or ".." segment, so that the mux hands it on as it is
IsCanonical(p) ==
    /\ p # <<>> /\ p[1] = "/"
    /\ \A k \in 1..Len(p) :
         p[k] = "/" =>
             /\ SubSeq(p, k + 1, NextSlash(p, k + 1) - 1) \notin {<<".">>, <<".", ".">>}
             /\ k < Len(p) => p[k + 1] # "/"

Authenticated(r) == r.iapAccepted /\ r.pc = "done"

UnknownPath(p) ==
    /\ p # <<"/">> /\ p # <<"/","h","e","a","l","t","h">>
    /\ ~HasProxyForm(p)

\* C6 as stated: an authenticated request whose path is neither /, /health
\* nor of proxy form is answered 404, whatever its method.
C6_UnknownPath404 ==
    \A i \in Slots :
        (Authenticated(reqs[i]) /\ UnknownPath(reqs[i].path)) =>
            reqs[i].resp.status = 404

\* C6: an authenticated request whose path is in canonical form and is
\* neither /, /health nor of proxy form is answered 404 when its method is
\* GET and 405 when it is any other method.
C6_UnknownPathGet404 ==
    \A i \in Slots :
        (Authenticated(reqs[i]) /\ UnknownPath(reqs[i].path) /\ IsCanonical(reqs[i].path)) =>
            /\ reqs[i].resp.status = (IF reqs[i].method = "GET" THEN 404 ELSE 405)
            /\ NoDirectoryCall(reqs[i]) /\ NoForward(reqs[i])

\* C6 witness: an authenticated GET /n/s/ was answered
C6_Witness ==
    \E i \in Slots :
        /\ Authenticated(reqs[i]) /\ reqs[i].method = "GET"
        /\ reqs[i].path = <<"/","n","/","s","/">>
        /\ reqs[i].resp.status = 404

\* C7: when the port segment parses and the directory reports NotFound for
\* the namespace and service the answer is 404, when the directory fails in
\* any other way the answer is 500, and in both cases nothing is forwarded.
C7_DirectoryErrors ==
    \A i \in Slots :
        /\ reqs[i].getAnswer # "" =>
               /\ reqs[i].handler = "proxy"
               /\ IsDecimalInteger(PortSegment(reqs[i].path))
               /\ reqs[i].gets = <<<<NamespaceSegment(reqs[i].path),
                                      ServiceSegment(reqs[i].path)>>>>
        /\ reqs[i].getAnswer = "notfound" =>
               /\ reqs[i].pc = "done" /\ reqs[i].resp.status = 404
               /\ NoForward(reqs[i]) /\ ~DirectoryHolds(dir, reqs[i].path)
        /\ reqs[i].getAnswer = "unavailable" =>
               /\ reqs[i].pc = "done" /\ reqs[i].resp.status = 500
               /\ NoForward(reqs[i])

\* C7 witness: the directory holds n/s and reported NotFound for n/t
C7_Witness ==
    \E i \in Slots :
        /\ reqs[i].getAnswer = "notfound" /\ reqs[i].gets = <<<< <<"n">>, <<"t">> >>>>
        /\ dir # <<>> /\ reqs[i].resp.status = 404

\* C8: a request the proxy handled that names a service the directory holds,
\* none of whose ports has both the requested number and the protocol TCP,
\* is answered 500 and is not forwarded.
C8_NoMatchingTCPPort ==
    \A i \in Slots :
        (/\ reqs[i].handler = "proxy" /\ reqs[i].pc = "done"
         /\ DirectoryHolds(dir, reqs[i].path)
         /\ ~AdvertisesTCP(dir, reqs[i].path)) =>
            reqs[i].resp.status = 500 /\ NoForward(reqs[i])

\* C8 witness: the directory returned n/s, which advertises 80 as UDP and
\* not as TCP, for a request of port 80
C8_Witness ==
    \E i \in Slots :
        /\ reqs[i].handler = "proxy" /\ reqs[i].pc = "done"
        /\ reqs[i].getAnswer = "found"
        /\ PortSegment(reqs[i].path) = <<"8","0">>
        /\ \E j \in 1..Len(dir[1].Ports) :
               dir[1].Ports[j].Port = 80 /\ dir[1].Ports[j].Protocol = "UDP"
        /\ ~AdvertisesTCP(dir, reqs[i].path)

\* C9: a request the proxy handles whose port segment is not a base-10
\* integer is answered 500 without a directory get and without a forward,
\* whether or not the directory holds the service.
C9_BadPortBeforeDirectory ==
    \A i \in Slots :
        (reqs[i].handler = "proxy" /\ ~IsDecimalInteger(PortSegment(reqs[i].path))) =>
            /\ reqs[i].pc = "done" /\ reqs[i].resp.status = 500
            /\ reqs[i].gets = <<>> /\ reqs[i].getAnswer = "" /\ NoForward(reqs[i])

\* C9 witness: port segment x for a service the directory holds
C9_Witness ==
    \E i \in Slots :
        /\ reqs[i].handler = "proxy" /\ reqs[i].pc = "done"
        /\ PortSegment(reqs[i].path) = <<"x">>
        /\ DirectoryHolds(dir, reqs[i].path)

-----------------------------------------------------------------------------
(* Properties of servicePattern (specification SpecPath).                  *)

\* C5 as stated: a path matches if and only if it is /<s1>/<s2>/<s3><rest>
\* with non-empty segments free of "/" and rest empty or starting with "/",
\* and the parts of a match put together give the path back.
C5_ProxyPathGrammar ==
    pathOut.done =>
        /\ (pathOut.matches # <<>>) <=> HasProxyForm(pathIn)
        /\ pathOut.matches # <<>> =>
               <<"/">> \o pathOut.matches[2] \o <<"/">> \o pathOut.matches[3]
                       \o <<"/">> \o pathOut.matches[4] \o pathOut.matches[5] = pathIn

\* what servicePattern does guarantee: a match has the form, its parts are
\* the segments and give the path back, and a path of the form whose rest
\* holds no line feed matches
ServicePatternSound ==
    pathOut.done =>
        /\ pathOut.matches # <<>> =>
               /\ HasProxyForm(pathIn)
               /\ pathOut.matches = <<pathIn, NamespaceSegment(pathIn), ServiceSegment(pathIn),
                                      PortSegment(pathIn), RestOfPath(pathIn)>>
        /\ (HasProxyForm(pathIn) /\ ~Contains(RestOfPath(pathIn), <<NL>>)) =>
               pathOut.matches # <<>>

-----------------------------------------------------------------------------
(* Properties of rewriteURL (specification SpecURL).                       *)

\* the string starts with a scheme: a letter, then letters, digits, "+",
\* "-" or ".", then ":"
HasScheme(s) ==
    \E i \in 2..Len(s) :
        /\ s[i] = ":" /\ IsLetter(s[1])
        /\ \A j \in 2..(i - 1) : IsLetter(s[j]) \/ IsDigit(s[j]) \/ s[j] \in {"+", "-", "."}

\* where the path of a reference without scheme starts: after the authority
AfterAuthority(s) ==
    IF HasPrefix(s, <<"/", "/">>)
    THEN IF \E k \in 3..Len(s) : s[k] \in {"/", "?", "#"}
         THEN CHOOSE k \in 3..Len(s) :
                  s[k] \in {"/", "?", "#"} /\ \A j \in 3..(k - 1) : s[j] \notin {"/", "?", "#"}
         ELSE Len(s) + 1
    ELSE 1

\* a reference without scheme whose path is empty
HasEmptyPath(s) ==
    /\ ~HasScheme(s)
    /\ AfterAuthority(s) > Len(s) \/ s[AfterAuthority(s)] \in {"?", "#"}

\* C10: rewriteURL returns its argument for every URL string that has a
\* scheme and for every URL string whose path is empty, for any root path.
C10_IdentityOnSchemeOrEmptyPath ==
    (urlOut.done /\ (HasScheme(urlIn.url) \/ HasEmptyPath(urlIn.url))) =>
        urlOut.url = urlIn.url

\* C10 witness: a URL with a scheme and an absolute path was rewritten
C10_Witness ==
    /\ urlOut.done /\ urlIn.url = <<"a", ":", "/", "a">>
    /\ urlIn.root = <<"/","n","/","s","/","8","0">>

\* the last position of the path of a reference without scheme
PathEnd(s) ==
    IF \E k \in AfterAuthority(s)..Len(s) : s[k] \in {"?", "#"}
    THEN (CHOOSE k \in AfterAuthority(s)..Len(s) :
              s[k] \in {"?", "#"} /\ \A j \in AfterAuthority(s)..(k - 1) : s[j] \notin {"?", "#"}) - 1
    ELSE Len(s)

\* the path of a reference without scheme, as written and decoded
RawPathOf(s) == SubSeq(s, AfterAuthority(s), PathEnd(s))
DecodedPathOf(s) == Unescape(RawPathOf(s), "path").s

\* url.Parse accepts the string
IsURL(s) == ~Parse(s).err

\* a URL without scheme whose path starts with "/"
HasAbsolutePath(s) ==
    /\ IsURL(s) /\ ~HasScheme(s)
    /\ RawPathOf(s) # <<>> /\ RawPathOf(s)[1] = "/"

\* the reference names a host
HasHost(s) == HasPrefix(s, <<"/", "/">>) /\ AfterAuthority(s) > 3

EndsInSlash(p) == p # <<>> /\ p[Len(p)] = "/"

\* q is root or lies below it
Under(root, q) ==
    q = root \/ HasPrefix(q, IF EndsInSlash(root) THEN root ELSE root \o <<"/">>)

C13_OtherOriginUnchanged ==
    (urlOut.done /\ (HasScheme(urlIn.url) \/ HasHost(urlIn.url))) =>
        urlOut.url = urlIn.url

\* C14 as stated: for a URL without scheme whose path starts with "/" the
\* path of the result is the root or begins with the root followed by "/".
C14_StaysUnderRoot ==
    (urlOut.done /\ HasAbsolutePath(urlIn.url)) =>
        Under(urlIn.root, DecodedPathOf(urlOut.url))

-----------------------------------------------------------------------------
(* Properties of the response hook (specification Spec).                   *)

\* the root path of a proxy path: /namespace/service/port, the port as a number
RootOf(p) ==
    <<"/">> \o NamespaceSegment(p) \o <<"/">> \o ServiceSegment(p) \o <<"/">>
            \o FormatInt(DecimalValue(PortSegment(p)))

\* the upstream answered and the answer went through the hook to the client
Proxied(r) == r.pc = "done" /\ r.upstream.status # 0

HTMLContentTypes == {"text/html; charset=UTF-8", "text/html;;"}

\* C15: a proxied response with a Location header reaches the client with
\* Location rewriteURL(upstream Location, /namespace/service/port), whatever
\* its Content-Type.
C15_LocationRewritten ==
    \A i \in Slots :
        (Proxied(reqs[i]) /\ reqs[i].upstream.location # <<>>) =>
            /\ reqs[i].resp.status = reqs[i].upstream.status
            /\ reqs[i].resp.location =
                   rewriteURL(reqs[i].upstream.location, RootOf(reqs[i].path))

\* C15 witness: Location /o of a response without Content-Type, asked for
\* under /n/s/+80, reached the client as /n/s/80/o
C15_Witness ==
    \E i \in Slots :
        /\ Proxied(reqs[i]) /\ reqs[i].upstream.contentType = ""
        /\ PortSegment(reqs[i].path) = <<"+","8","0">>
        /\ reqs[i].upstream.location = <<"/","o">>
        /\ reqs[i].resp.location = <<"/","n","/","s","/","8","0","/","o">>

\* C17 as stated: a proxied response whose Content-Type fails to parse or
\* whose media type is not text/html passes the hook with its body and its
\* Content-Length as the upstream sent them.
C17_NonHTMLPassesThrough ==
    \A i \in Slots :
        (/\ Proxied(reqs[i])
         /\ reqs[i].upstream.contentType \in {"text/plain", "", "text/html;;"}) =>
            /\ reqs[i].resp.status = reqs[i].upstream.status
            /\ reqs[i].resp.body = reqs[i].upstream.body
            /\ reqs[i].resp.contentLength = reqs[i].upstream.contentLength

\* C18: a proxied response of media type text/html reaches the client with
\* the rewritten body and with no Content-Length or with the length of the
\* rewritten body.
C18_ContentLengthOfRewrittenBody ==
    \A i \in Slots :
        (Proxied(reqs[i]) /\ reqs[i].upstream.contentType \in HTMLContentTypes) =>
            /\ reqs[i].resp.status = reqs[i].upstream.status
            /\ reqs[i].resp.body =
                   rewriteAbsolutePathLinks(reqs[i].upstream.tokens, RootOf(reqs[i].path))
            /\ \/ reqs[i].resp.contentLength = <<>>
               \/ reqs[i].resp.contentLength = <<Len(reqs[i].resp.body)>>

\* C18 witness: the rewritten body is longer than the length the upstream sent
C18_Witness ==
    \E i \in Slots :
        /\ Proxied(reqs[i]) /\ reqs[i].upstream.contentType = "text/html; charset=UTF-8"
        /\ reqs[i].upstream.contentLength = <<Len(reqs[i].upstream.body)>>
        /\ Len(reqs[i].resp.body) > Len(reqs[i].upstream.body)
        /\ reqs[i].resp.contentLength = <<>>

\* C20: a forward carries the method and the body of the request, the proxy
\* handler never answers 405, and a request of any method for a TCP port the
\* directory returned is forwarded.
C20_MethodAndBodyForwarded ==
    \A i \in Slots :
        /\ \A k \in 1..Len(reqs[i].forwards) :
               /\ reqs[i].forwards[k].method = reqs[i].method
               /\ reqs[i].forwards[k].body = reqs[i].body
        /\ (reqs[i].handler = "proxy" /\ reqs[i].pc = "done") =>
               reqs[i].resp.status # 405
        /\ (/\ reqs[i].handler = "proxy" /\ reqs[i].pc = "done"
            /\ reqs[i].getAnswer = "found" /\ AdvertisesTCP(dir, reqs[i].path)) =>
               Len(reqs[i].forwards) = 1

\* C20 witness: a POST with a body was forwarded and answered
C20_Witness ==
    \E i \in Slots :
        /\ reqs[i].pc = "done" /\ reqs[i].method = "POST"
        /\ Len(reqs[i].forwards) = 1
        /\ reqs[i].forwards[1].method = "POST" /\ reqs[i].forwards[1].body = <<"b">>
        /\ reqs[i].resp.status = 205

-----------------------------------------------------------------------------
(* Properties of rewriteAbsolutePathLinks (specification SpecHTML).        *)

\* attribute j of piece k is the href of an anchor or the action of a form
IsLinkAttribute(pc, j) ==
    \/ ToLower(pc.Name) = <<"a">> /\ ToLower(pc.Attrs[j].Key) = <<"h","r","e","f">>
    \/ /\ ToLower(pc.Name) = <<"f","o","r","m">>
       /\ ToLower(pc.Attrs[j].Key) = <<"a","c","t","i","o","n">>

\* C16: after the rewrite the href of every anchor and the action of every
\* form is rewriteURL(value, root) and every other attribute has the value
\* the document gave it (the documents write their values without
\* character references).
C16_OnlyLinkAttributesRewritten ==
    htmlOut.done =>
        \A k \in 1..Len(htmlIn.doc) :
            /\ Len(htmlOut.tokens[k].Attr) = Len(htmlIn.doc[k].Attrs)
            /\ \A j \in 1..Len(htmlIn.doc[k].Attrs) :
                   htmlOut.tokens[k].Attr[j].Val =
                       IF IsLinkAttribute(htmlIn.doc[k], j)
                       THEN rewriteURL(htmlIn.doc[k].Attrs[j].Val, htmlIn.root)
                       ELSE htmlIn.doc[k].Attrs[j].Val

\* C16 witness: an anchor with href and src, then a link with href, and the
\* bytes written for them
C16_Witness ==
    /\ htmlOut.done /\ Len(htmlIn.doc) = 2
    /\ htmlIn.doc[1].Name = <<"a">> /\ htmlIn.doc[2].Name = <<"l","i","n","k">>
    /\ htmlOut.tokens[1].Attr[1].Val = <<"/","n","/","s","/","8","0","/","x">>
    /\ htmlOut.tokens[1].Attr[2].Val = <<"/","x">>
    /\ htmlOut.tokens[2].Attr[1].Val = <<"/","x">>

\* the piece holds an attribute the rewrite changes
IsTouched(pc) == \E j \in 1..Len(pc.Attrs) : IsLinkAttribute(pc, j)

\* C19 as stated: what is written for a piece without href of an anchor and
\* without action of a form is the piece byte for byte.
C19_UntouchedPiecesByteForByte ==
    htmlOut.done =>
        \A k \in 1..Len(htmlIn.doc) :
            ~IsTouched(htmlIn.doc[k]) => htmlOut.pieces[k] = PieceBytes(htmlIn.doc[k])

\* what does hold: raw text (script content) and text without character
\* references are written as received, and so are start tags written in
\* lower case with double-quoted values free of character references
WrittenAsReceivedWhenPlain ==
    htmlOut.done =>
        \A k \in 1..Len(htmlIn.doc) :
            (/\ ~IsTouched(htmlIn.doc[k])
             /\ \/ htmlIn.doc[k].Kind = "Text"
                   /\ (TextIsRaw(htmlIn.doc, k) \/ ~Contains(htmlIn.doc[k].Text, <<"&">>))
                \/ htmlIn.doc[k].Kind = "StartTag"
                   /\ \A j \in 1..Len(htmlIn.doc[k].Attrs) : htmlIn.doc[k].Attrs[j].Quote = DQ) =>
                htmlOut.pieces[k] = PieceBytes(htmlIn.doc[k])

-----------------------------------------------------------------------------
(* The listing.                                                            *)

\* the (namespace, name) pairs of a listing in the order they are rendered
RECURSIVE PairsOfListing(_)
PairsOfListing(listing) ==
    IF listing = <<>> THEN <<>>
    ELSE [k \in 1..Len(Head(listing).Items) |->
             <<Head(listing).Name, Head(listing).Items[k].Name>>]
         \o PairsOfListing(Tail(listing))

\* the (namespace, name) pairs of the entries of a directory
DirPairs(d) == [k \in 1..Len(d) |-> <<d[k].Namespace, d[k].Name>>]

PairLess(p, q) == IF p[1] # q[1] THEN StrLess(p[1], q[1]) ELSE StrLess(p[2], q[2])

CountIn(seq, x) == Cardinality({k \in 1..Len(seq) : seq[k] = x})

\* the request asked for the listing and the directory answered the list call
ListAnswered(r) ==
    r.pc = "done" /\ r.handler = "root" /\ r.lists = 1
    /\ r.resp.status # StatusInternalServerError

\* the listing shows the directory d sorted and grouped
SortedAndGrouped(listing, d) ==
    /\ \A a, b \in 1..Len(PairsOfListing(listing)) :
           a < b => ~PairLess(PairsOfListing(listing)[b], PairsOfListing(listing)[a])
    /\ Len(PairsOfListing(listing)) = Len(d)
    /\ \A k \in 1..Len(d) :
           CountIn(PairsOfListing(listing), DirPairs(d)[k]) = CountIn(DirPairs(d), DirPairs(d)[k])
    /\ \A a, b \in 1..Len(listing) : a # b => listing[a].Name # listing[b].Name
    /\ \A a \in 1..Len(listing) : listing[a].Items # <<>>

\* C21 as stated: whatever the order and the namespaces of the entries the
\* directory returns, the empty namespace included, GET / renders them in
\* ascending (namespace, name) order, one group for each namespace, each
\* entry once in the group of its namespace.
C21_ListingSortedAndGrouped ==
    \A i \in Slots :
        ListAnswered(reqs[i]) =>
            /\ reqs[i].resp.status = StatusOK
            /\ SortedAndGrouped(reqs[i].listing, dir)

\* what does hold: the listing is sorted and grouped when no entry has the
\* empty namespace, and entries (b,y), (a,z), (a,x) render as (a,x), (a,z),
\* (b,y)
ListingSortedWhenNamed ==
    \A i \in Slots :
        (ListAnswered(reqs[i]) /\ \A k \in 1..Len(dir) : dir[k].Namespace # <<>>) =>
            /\ reqs[i].resp.status = StatusOK
            /\ SortedAndGrouped(reqs[i].listing, dir)
            /\ (/\ Len(dir) = 3
                /\ \A a, b \in 1..Len(dir) : a # b => dir[a] # dir[b]
                /\ \A k \in 1..Len(dir) :
                       DirPairs(dir)[k] \in {<<<<"b">>, <<"y">>>>, <<<<"a">>, <<"z">>>>,
                                             <<<<"a">>, <<"x">>>>})
               => PairsOfListing(reqs[i].listing) =
                      << <<<<"a">>, <<"x">>>>, <<<<"a">>, <<"z">>>>, <<<<"b">>, <<"y">>>> >>

\* the links of the TCP ports of a directory entry, in the entry's order
RECURSIVE TCPLinksOf(_, _)
TCPLinksOf(e, k) ==
    IF k > Len(e.Ports) THEN <<>>
    ELSE (IF e.Ports[k].Protocol = "TCP"
          THEN <<(<<"/">> \o e.Namespace \o <<"/">> \o e.Name \o <<"/">>
                   \o FormatNat(e.Ports[k].Port) \o <<"/">>)>>
          ELSE <<>>)
         \o TCPLinksOf(e, k + 1)

\* C22: in a listing GET / produced, every directory entry is listed, with a
\* link /namespace/service/port/ for each of its TCP ports and for no other
\* port; an entry without TCP ports is listed without a link.
C22_LinksForTCPPortsOnly ==
    \A i \in Slots :
        (ListAnswered(reqs[i]) /\ reqs[i].resp.status = StatusOK) =>
            /\ \A k \in 1..Len(dir) :
                   \E g \in 1..Len(reqs[i].listing) :
                       /\ reqs[i].listing[g].Name = dir[k].Namespace
                       /\ \E j \in 1..Len(reqs[i].listing[g].Items) :
                              reqs[i].listing[g].Items[j].Name = dir[k].Name
            /\ \A g \in 1..Len(reqs[i].listing) :
                   \A j \in 1..Len(reqs[i].listing[g].Items) :
                       \E k \in 1..Len(dir) :
                           /\ dir[k].Namespace = reqs[i].listing[g].Name
                           /\ dir[k].Name = reqs[i].listing[g].Items[j].Name
                           /\ reqs[i].listing[g].Items[j].Links = TCPLinksOf(dir[k], 1)

\* C22 witness: a listing of a/z, which has no port, and b/x, which has an
\* SCTP port and the TCP ports 80 and 81
C22_Witness ==
    \E i \in Slots :
        /\ ListAnswered(reqs[i]) /\ reqs[i].resp.status = StatusOK
        /\ Len(reqs[i].listing) = 2
        /\ reqs[i].listing[1].Items = <<[Name |-> <<"z">>, Links |-> <<>>]>>
        /\ reqs[i].listing[2].Items =
               <<[Name |-> <<"x">>,
                  Links |-> << <<"/","b","/","x","/","8","0","/">>,
                               <<"/","b","/","x","/","8","1","/">> >>]>>

\* C29 as stated: no step changes the entries or the order of the list the
\* directory client hands out.
C29_DirectoryListUnchanged == [][dir' = dir]_vars

-----------------------------------------------------------------------------
(* The request sent to the upstream.                                       *)

\* C23: a forwarded request goes out with scheme http, host "address:port"
\* of the directory entry of its namespace and service with the port of its
\* path as a number, and as path the rest of the inbound path after the
\* three routing segments; the client gets the status the upstream answered.
C23_OutboundRequest ==
    \A i \in Slots :
        /\ \A k \in 1..Len(reqs[i].forwards) :
               /\ HasProxyForm(reqs[i].path)
               /\ Lookup(dir, NamespaceSegment(reqs[i].path),
                         ServiceSegment(reqs[i].path)) # <<>>
               /\ reqs[i].forwards[k].scheme = <<"h","t","t","p">>
               /\ reqs[i].forwards[k].host =
                      Lookup(dir, NamespaceSegment(reqs[i].path),
                             ServiceSegment(reqs[i].path))[1].ClusterIP
                      \o <<":">> \o FormatNat(DecimalValue(PortSegment(reqs[i].path)))
               /\ reqs[i].forwards[k].path = RestOfPath(reqs[i].path)
        /\ Proxied(reqs[i]) => reqs[i].resp.status = reqs[i].upstream.status

\* C23 witness: /n/s/+80/a went out to c:80 with path /a and the upstream's
\* 205 reached the client
C23_Witness ==
    \E i \in Slots :
        /\ Proxied(reqs[i])
        /\ reqs[i].path = <<"/","n","/","s","/","+","8","0","/","a">>
        /\ reqs[i].forwards[1].host = <<"c",":","8","0">>
        /\ reqs[i].forwards[1].path = <<"/","a">>
        /\ reqs[i].upstream.status = 205 /\ reqs[i].resp.status = 205

-----------------------------------------------------------------------------
(* Requests served at once.                                                *)

\* C24: however the steps of requests served at once interleave, a response
\* at the hook carries the origRequestData of its own request, and what the
\* client gets was rewritten with the root path /namespace/service/port of
\* that request, never with that of another request in flight.
C24_OwnTargetAtHook ==
    \A i \in DOMAIN reqs :
        /\ reqs[i].pc = "hook" =>
               /\ reqs[i].target.set
               /\ reqs[i].target.namespace = NamespaceSegment(reqs[i].path)
               /\ reqs[i].target.service = ServiceSegment(reqs[i].path)
               /\ reqs[i].target.port = DecimalValue(PortSegment(reqs[i].path))
               /\ reqs[i].target.destPath = RestOfPath(reqs[i].path)
        /\ Proxied(reqs[i]) =>
               /\ reqs[i].resp.location =
                      IF reqs[i].upstream.location = <<>> THEN <<>>
                      ELSE rewriteURL(reqs[i].upstream.location, RootOf(reqs[i].path))
               /\ reqs[i].upstream.contentType = "text/html; charset=UTF-8" =>
                      reqs[i].resp.body =
                          rewriteAbsolutePathLinks(reqs[i].upstream.tokens,
                                                   RootOf(reqs[i].path))

\* C24 witness: the response of /n/s/80/a reached its client with Location
\* /n/s/80/o while the response of /n/t/+80 was at the hook
C24_Witness ==
    \E i, j \in DOMAIN reqs :
        /\ i # j
        /\ Proxied(reqs[i]) /\ ServiceSegment(reqs[i].path) = <<"s">>
        /\ reqs[i].resp.location = <<"/","n","/","s","/","8","0","/","o">>
        /\ reqs[j].pc = "hook" /\ reqs[j].target.service = <<"t">>
        /\ reqs[j].upstream.location = <<"/","o">>

-----------------------------------------------------------------------------
(* No retries.                                                             *)

\* C25 as stated: a request causes at most one directory call, a get for a
\* proxy path or a list for /, and at most one forward; it is over with
\* exactly one response; and a failed directory call or a failed forward
\* ends it with no further call or forward.
C25_OneCallOneForwardOneResponse ==
    \A i \in Slots :
        /\ Len(reqs[i].gets) + reqs[i].lists <= 1
        /\ Len(reqs[i].forwards) <= 1
        /\ reqs[i].gets # <<>> => MatchString(reqs[i].path)
        /\ reqs[i].lists # 0 => reqs[i].path = <<"/">>
        /\ reqs[i].responses = IF reqs[i].pc = "done" THEN 1 ELSE 0
        /\ reqs[i].getAnswer \in {"notfound", "unavailable"} =>
               reqs[i].pc = "done" /\ NoForward(reqs[i])
        /\ (reqs[i].lists = 1 /\ reqs[i].resp.status = StatusInternalServerError) =>
               reqs[i].pc = "done" /\ NoForward(reqs[i]) /\ reqs[i].gets = <<>>
        /\ (reqs[i].forwards # <<>> /\ reqs[i].upstream.status = 0) =>
               reqs[i].pc = "done" /\ reqs[i].resp.status = StatusBadGateway

-----------------------------------------------------------------------------
(* Startup.                                                                *)

\* C26: a request is taken only after the self-check of main, one list call
\* with limit 1, has succeeded; the self-check is made once; and when it
\* fails the process is over without a request ever served.
C26_SelfCheckBeforeServing ==
    /\ Len(main.checks) <= 1
    /\ (\E i \in Slots : reqs[i] # Idle) =>
           main.pc = "serving" /\ main.checks = <<1>> /\ main.answer = "ok"
    /\ main.pc = "serving" => main.checks = <<1>> /\ main.answer = "ok"
    /\ main.answer \notin {"", "ok"} =>
           main.pc = "panicked" /\ \A i \in Slots : reqs[i] = Idle

\* C26 witness: the self-check succeeded and a request was proxied
C26_Witness ==
    /\ main.checks = <<1>> /\ main.answer = "ok"
    /\ \E i \in Slots : Proxied(reqs[i])

\* the self-check failed and main panicked
C26_Panicked == main.pc = "panicked" /\ main.answer = "unavailable"

-----------------------------------------------------------------------------
(* Rewriting twice.                                                        *)

\* C27 as stated: rewriting the result of rewriteURL once more with the same
\* root gives that result again, for every URL string and root path.
C27_RewriteIdempotent == urlOut.again => urlOut.url2 = urlOut.url

\* what does hold: the second rewrite changes nothing when the root is /, and
\* nothing when the first rewrite returned its argument
RewriteIdempotentWhenUnrooted ==
    (urlOut.again /\ (urlIn.root = <<"/">> \/ urlOut.url = urlIn.url)) =>
        urlOut.url2 = urlOut.url

-----------------------------------------------------------------------------
(* The hook without origRequestData.                                       *)

\* the response of the upstream went through the hook of a request whose
\* context holds no origRequestData
HookedWithoutTarget(r) == r.pc = "done" /\ r.upstream.status # 0 /\ ~r.target.set

\* C28: when the hook runs on a response whose request carries no
\* origRequestData it returns an error and leaves Location, Content-Length
\* and body as they were, and the client gets an error response and not the
\* response of the upstream.
C28_HookFailsWithoutTarget ==
    \A i \in Slots :
        HookedWithoutTarget(reqs[i]) =>
            /\ reqs[i].hooked = reqs[i].upstream
            /\ reqs[i].resp.status = StatusBadGateway
            /\ reqs[i].resp.location = <<>> /\ reqs[i].resp.body = <<>>
            /\ reqs[i].responses = 1

\* C28 witness: an HTML response with status 303 and Location /o went through
\* the hook without origRequestData and the client got 502
C28_Witness ==
    \E i \in Slots :
        /\ HookedWithoutTarget(reqs[i])
        /\ reqs[i].upstream.status = 303 /\ reqs[i].upstream.location = <<"/","o">>
        /\ reqs[i].upstream.contentType = "text/html; charset=UTF-8"
        /\ reqs[i].hooked.contentLength # <<>>
        /\ reqs[i].resp.status = StatusBadGateway

-----------------------------------------------------------------------------
(* Port segments beyond 32 bits.                                           *)

\* the digits of a base-10 integer without leading zeros: <<>> for zero
RECURSIVE StripZeros(_)
StripZeros(d) == IF d # <<>> /\ Head(d) = "0" THEN StripZeros(Tail(d)) ELSE d

Magnitude(s) == StripZeros(Unsigned(s))

IsNegative(s) == s # <<>> /\ s[1] = "-" /\ Magnitude(s) # <<>>

\* the base-10 integer s denotes the number n >= 0, compared digit by digit
\* so that s may be of any length
DenotesNat(s, n) ==
    /\ IsDecimalInteger(s) /\ ~IsNegative(s)
    /\ Magnitude(s) = IF n = 0 THEN <<>> ELSE FormatNat(n)

\* the magnitude a is greater than the magnitude b
MagnitudeGreater(a, b) == Len(a) > Len(b) \/ (Len(a) = Len(b) /\ StrLess(b, a))

\* the base-10 integer s denotes a number outside -2^31 .. 2^31 - 1
OutsideInt32(s) ==
    /\ IsDecimalInteger(s)
    /\ MagnitudeGreater(Magnitude(s),
                        IF IsNegative(s) THEN <<"2","1","4","7","4","8","3","6","4","8">>
                        ELSE <<"2","1","4","7","4","8","3","6","4","7">>)

\* C30: a port segment whose value lies outside the signed 32-bit range is
\* rejected before the directory is asked and before any port is compared,
\* and a request is forwarded only when the integer its port segment denotes
\* is a TCP port the service advertises: 4294967376 does not match port 80.
C30_PortOutsideInt32Rejected ==
    \A i \in Slots :
        /\ (reqs[i].handler = "proxy" /\ OutsideInt32(PortSegment(reqs[i].path))) =>
               /\ reqs[i].pc = "done" /\ reqs[i].resp.status = StatusInternalServerError
               /\ NoDirectoryCall(reqs[i]) /\ NoForward(reqs[i])
        /\ reqs[i].forwards # <<>> =>
               \E k \in 1..Len(dir) :
                   /\ dir[k].Namespace = NamespaceSegment(reqs[i].path)
                   /\ dir[k].Name = ServiceSegment(reqs[i].path)
                   /\ \E j \in 1..Len(dir[k].Ports) :
                          /\ dir[k].Ports[j].Protocol = "TCP"
                          /\ DenotesNat(PortSegment(reqs[i].path), dir[k].Ports[j].Port)

\* C30 witness: the request for port 4294967376, which is 2^32 + 80, of a
\* service with the TCP port 80 was answered 500 with nothing forwarded
C30_Witness ==
    \E i \in Slots :
        /\ reqs[i].pc = "done" /\ reqs[i].handler = "proxy"
        /\ PortSegment(reqs[i].path) = <<"4","2","9","4","9","6","7","3","7","6">>
        /\ reqs[i].resp.status = StatusInternalServerError
        /\ NoDirectoryCall(reqs[i]) /\ NoForward(reqs[i])
        /\ PortFound(dir[1], 80)

\* the request for port 2147483647, the greatest int32, was forwarded
C30_GreatestPortForwarded ==
    \E i \in Slots :
        /\ Proxied(reqs[i])
        /\ PortSegment(reqs[i].path) = <<"2","1","4","7","4","8","3","6","4","7">>

=============================================================================
